---- MODULE Spec2Model ----
(***************************************************************************)
(* Image-Processing-Service: the transformation pipeline                   *)
(* (utils/imageProcessor.js), the request validation (utils/validation.js),*)
(* the Bull job queue with its two processors (utils/queue.js) and the     *)
(* routes that submit and read jobs (routes/images.js, routes/jobs.js).    *)
(*                                                                         *)
(* A Transform Specification is a JavaScript object; its keys keep their   *)
(* insertion order, so it is modelled as a sequence of <<key, value>>      *)
(* pairs.  Nested option objects are records that hold only the fields     *)
(* that are present.  Numbers are integers.                                *)
(***************************************************************************)
EXTENDS Integers, Sequences, FiniteSets, TLC

(***************************************************************************)
(* Bounds of the model.                                                    *)
(***************************************************************************)
MaxJobs == 1
MaxTime == 2
MaxFaults == 1
MaxKeys == 3
MaxPage == 2
MaxLimit == 1

(***************************************************************************)
(* Program constants.                                                      *)
(***************************************************************************)
maxDimension == 4000
defaultQuality == 80
TransformAttempts == 3
OptimizeAttempts == 2
Concurrency == 2

Users == {"userA", "userB"}

Undefined == "undefined"

(***************************************************************************)
(* State.                                                                  *)
(*   images      the Image collection: _id -> document                     *)
(*   storage     the S3 bucket: key -> stored buffer                       *)
(*   storageUsed the users' storageUsed field                              *)
(*   jobs        the Bull queue: job id -> job (a removed job has no entry)*)
(*   work        the local variables of the running processor calls        *)
(*   nextJobId, nextImageId   the id generators                            *)
(*   now         Date.now()                                                *)
(*   faults      number of S3 requests that have failed so far             *)
(*   history     per job, the outcome of each finished attempt             *)
(*   probe       one call of ImageProcessor.transform on its own           *)
(*   lost        the local variables of the processor calls whose lock     *)
(*               expired while they were running                           *)
(***************************************************************************)
VARIABLES images, storage, storageUsed, jobs, work, nextJobId, nextImageId, now, faults, history, probe, lost

vars == <<images, storage, storageUsed, jobs, work, nextJobId, nextImageId, now, faults, history, probe, lost>>

(***************************************************************************)
(* Generic helpers on JavaScript-like objects.                             *)
(***************************************************************************)
Has(obj, f) == f \in DOMAIN obj

\* { name: obj.f } as Mongoose sees it: a path set to undefined is not set
Prop(name, obj, f) == IF f \in DOMAIN obj THEN name :> obj[f] ELSE <<>>

Keys(spec) == [i \in 1..Len(spec) |-> spec[i][1]]

HasKey(spec, k) == \E i \in 1..Len(spec) : spec[i][1] = k

Get(spec, k) == spec[CHOOSE i \in 1..Len(spec) : spec[i][1] = k][2]

RECURSIVE SelectPairs(_, _)
SelectPairs(spec, keep) ==
  IF spec = <<>> THEN <<>>
  ELSE IF Head(spec)[1] \in keep
       THEN <<Head(spec)>> \o SelectPairs(Tail(spec), keep)
       ELSE SelectPairs(Tail(spec), keep)

WithDefault(obj, f, v) == IF Has(obj, f) THEN obj ELSE [g \in DOMAIN obj \cup {f} |-> IF g = f THEN v ELSE obj[g]]

Restrict(obj, fs) == [g \in DOMAIN obj \cap fs |-> obj[g]]

(***************************************************************************)
(* utils/validation.js: transformationValidation.                          *)
(***************************************************************************)
Formats == {"jpeg", "jpg", "png", "webp", "avif"}

Fits == {"cover", "contain", "fill", "inside", "outside"}

Gravities == {"north", "northeast", "east", "southeast", "south", "southwest", "west", "northwest", "center"}

SchemaKeys == {"resize", "crop", "rotate", "flip", "mirror", "filters", "format", "formatOptions", "compress", "watermark"}

IntIn(obj, f, lo, hi) == Has(obj, f) => (obj[f] \in Int /\ obj[f] >= lo /\ obj[f] <= hi)

IntMin(obj, f, lo) == Has(obj, f) => (obj[f] \in Int /\ obj[f] >= lo)

BoolIn(obj, f) == Has(obj, f) => obj[f] \in BOOLEAN

resizeValid(r) ==
  /\ IntIn(r, "width", 1, 4000)
  /\ IntIn(r, "height", 1, 4000)
  /\ Has(r, "fit") => r.fit \in Fits
  /\ BoolIn(r, "withoutEnlargement")
  /\ Has(r, "width") <=> Has(r, "height")

cropValidNoHeight(c) ==
  /\ Has(c, "width") /\ IntMin(c, "width", 1)
  /\ IntMin(c, "height", 1)
  /\ IntMin(c, "x", 0)
  /\ IntMin(c, "y", 0)

cropValid(c) ==
  /\ Has(c, "width") /\ IntMin(c, "width", 1)
  /\ Has(c, "height") /\ IntMin(c, "height", 1)
  /\ IntMin(c, "x", 0)
  /\ IntMin(c, "y", 0)

filtersValid(f) ==
  /\ BoolIn(f, "grayscale")
  /\ BoolIn(f, "sepia")
  /\ IntIn(f, "blur", 1, 1000)
  /\ BoolIn(f, "sharpen")
  /\ IntIn(f, "brightness", 1, 3)
  /\ IntIn(f, "contrast", 1, 3)
  /\ IntIn(f, "saturation", 0, 3)

formatOptionsValid(o) ==
  /\ IntIn(o, "quality", 1, 100)
  /\ BoolIn(o, "progressive")
  /\ IntIn(o, "compressionLevel", 0, 9)
  /\ BoolIn(o, "lossless")

compressValid(c) ==
  /\ IntIn(c, "quality", 1, 100)
  /\ Has(c, "format") => c.format \in Formats

watermarkValid(w) ==
  Has(w, "options") => (Has(w.options, "gravity") => w.options.gravity \in Gravities)

fieldValid(k, v) ==
  CASE k = "resize" -> resizeValid(v)
    [] k = "crop" -> cropValid(v)
    [] k = "rotate" -> v \in Int /\ v >= -360 /\ v <= 360
    [] k = "flip" -> v \in BOOLEAN
    [] k = "mirror" -> v \in BOOLEAN
    [] k = "filters" -> filtersValid(v)
    [] k = "format" -> v \in Formats
    [] k = "formatOptions" -> formatOptionsValid(v)
    [] k = "compress" -> compressValid(v)
    [] k = "watermark" -> watermarkValid(v)
    [] OTHER -> TRUE

\* the value Joi hands on: unknown keys stripped, defaults filled in
fieldValue(k, v) ==
  CASE k = "resize" ->
         WithDefault(WithDefault(Restrict(v, {"width", "height", "fit", "withoutEnlargement"}),
                                 "fit", "inside"), "withoutEnlargement", TRUE)
    [] k = "crop" -> WithDefault(WithDefault(Restrict(v, {"width", "height", "x", "y"}), "x", 0), "y", 0)
    [] k = "filters" -> Restrict(v, {"grayscale", "sepia", "blur", "sharpen", "brightness", "contrast", "saturation"})
    [] k = "formatOptions" -> Restrict(v, {"quality", "progressive", "compressionLevel", "lossless"})
    [] k = "compress" -> WithDefault(Restrict(v, {"quality", "format"}), "quality", 80)
    [] k = "watermark" -> Restrict(v, {"text", "options"})
    [] OTHER -> v

transformationValidation(spec) ==
  LET known == SelectPairs(spec, SchemaKeys)
  IN  [error |-> \E i \in 1..Len(known) : ~fieldValid(known[i][1], known[i][2]),
       value |-> [i \in 1..Len(known) |-> <<known[i][1], fieldValue(known[i][1], known[i][2])>>]]

(***************************************************************************)
(* utils/imageProcessor.js.  A buffer is an encoded image: its pixel size, *)
(* its encoded format, whether it is desaturated, and the list of engine   *)
(* operations that produced it from the decoded source.  Its byte length   *)
(* is a function of the pixel count.                                       *)
(***************************************************************************)
Ok(buf) == [ok |-> TRUE, buf |-> buf, err |-> ""]

Fail(msg) == [ok |-> FALSE, buf |-> <<>>, err |-> msg]

Applied(buf, op) == [buf EXCEPT !.applied = Append(@, op)]

BufferLength(buf) == buf.len

AtLeastOne(n) == IF n < 1 THEN 1 ELSE n

\* the same picture at another pixel size: the byte lengths follow the pixel count
Resized(buf, w, h) ==
  [buf EXCEPT !.width = w, !.height = h,
              !.len = AtLeastOne((buf.len * w * h) \div (buf.width * buf.height)),
              !.packed = AtLeastOne((buf.packed * w * h) \div (buf.width * buf.height))]

\* the same picture written by an explicit encoder
Encoded(buf, format) == [buf EXCEPT !.format = format, !.len = buf.packed]

Wrap(prefix, r) == IF r.ok THEN r ELSE Fail(prefix \o r.err)

getMetadata(buf) == [width |-> buf.width, height |-> buf.height, format |-> buf.format,
                     colorSpace |-> IF buf.gray THEN "b-w" ELSE "srgb", hasAlpha |-> FALSE]

\* sharp(...).rotate(angle): a quarter turn swaps the sides
rotate(buf, angle) ==
  LET a == ((angle % 360) + 360) % 360
  IN  Ok(Applied(IF a \in {90, 270} THEN [buf EXCEPT !.width = buf.height, !.height = buf.width]
                 ELSE buf, "rotate"))

flip(buf) == Ok(Applied(buf, "flip"))

mirror(buf) == Ok(Applied(buf, "mirror"))

crop(buf, options) ==
  LET x == IF Has(options, "x") THEN options.x ELSE 0
      y == IF Has(options, "y") THEN options.y ELSE 0
      r == IF ~Has(options, "width") \/ ~Has(options, "height")
           THEN Fail("Width and height are required for cropping")
           ELSE IF x + options.width > buf.width \/ y + options.height > buf.height
           THEN Fail("extract_area: bad extract area")
           ELSE Ok(Applied(Resized(buf, options.width, options.height), "crop"))
  IN  Wrap("Failed to crop image: ", r)

\* sharp resize with fit 'inside': the largest size within width x height
\* that keeps the aspect ratio, never larger than the input when
\* withoutEnlargement; the other fits produce exactly width x height
Inside(buf, w, h, withoutEnlargement) ==
  IF withoutEnlargement /\ buf.width <= w /\ buf.height <= h THEN buf
  ELSE IF buf.width * h >= buf.height * w
       THEN Resized(buf, w, AtLeastOne((buf.height * w) \div buf.width))
       ELSE Resized(buf, AtLeastOne((buf.width * h) \div buf.height), h)

\* sharp resize with one side only: the other side follows the aspect
\* ratio, and the input is kept when it is not larger and withoutEnlargement
ScaledToWidth(buf, w, withoutEnlargement) ==
  IF withoutEnlargement /\ buf.width <= w THEN buf
  ELSE Resized(buf, w, AtLeastOne((buf.height * w) \div buf.width))

ScaledToHeight(buf, h, withoutEnlargement) ==
  IF withoutEnlargement /\ buf.height <= h THEN buf
  ELSE Resized(buf, AtLeastOne((buf.width * h) \div buf.height), h)

resizeBelowMax(buf, options) ==
  LET fit == IF Has(options, "fit") THEN options.fit ELSE "inside"
      we == IF Has(options, "withoutEnlargement") THEN options.withoutEnlargement ELSE TRUE
      r == IF (Has(options, "width") /\ options.width >= maxDimension)
              \/ (Has(options, "height") /\ options.height >= maxDimension)
           THEN Fail("Maximum dimension allowed is 4000px")
           ELSE IF ~Has(options, "width") /\ ~Has(options, "height")
           THEN Ok(Applied(buf, "resize"))
           ELSE IF ~Has(options, "height")
           THEN Ok(Applied(ScaledToWidth(buf, options.width, we), "resize"))
           ELSE IF ~Has(options, "width")
           THEN Ok(Applied(ScaledToHeight(buf, options.height, we), "resize"))
           ELSE IF fit \in {"inside", "outside"}
           THEN Ok(Applied(Inside(buf, options.width, options.height, we), "resize"))
           ELSE Ok(Applied(Resized(buf, options.width, options.height), "resize"))
  IN  Wrap("Failed to resize image: ", r)

resize(buf, options) ==
  LET fit == IF Has(options, "fit") THEN options.fit ELSE "inside"
      we == IF Has(options, "withoutEnlargement") THEN options.withoutEnlargement ELSE TRUE
      r == IF (Has(options, "width") /\ options.width > maxDimension)
              \/ (Has(options, "height") /\ options.height > maxDimension)
           THEN Fail("Maximum dimension allowed is 4000px")
           ELSE IF ~Has(options, "width") /\ ~Has(options, "height")
           THEN Ok(Applied(buf, "resize"))
           ELSE IF ~Has(options, "height")
           THEN Ok(Applied(ScaledToWidth(buf, options.width, we), "resize"))
           ELSE IF ~Has(options, "width")
           THEN Ok(Applied(ScaledToHeight(buf, options.height, we), "resize"))
           ELSE IF fit \in {"inside", "outside"}
           THEN Ok(Applied(Inside(buf, options.width, options.height, we), "resize"))
           ELSE Ok(Applied(Resized(buf, options.width, options.height), "resize"))
  IN  Wrap("Failed to resize image: ", r)

\* if (filters.<name>): a boolean that is true, a number that is not 0
FilterSet(filters, name) ==
  /\ Has(filters, name)
  /\ IF name \in {"grayscale", "sepia", "sharpen"} THEN filters[name] = TRUE ELSE filters[name] # 0

FilterCall(filters, name) == IF FilterSet(filters, name) THEN <<name>> ELSE <<>>

\* the branches of applyFilters that are entered, in the order of the code
filterCalls(filters) ==
  FilterCall(filters, "grayscale") \o FilterCall(filters, "sepia") \o FilterCall(filters, "blur")
    \o FilterCall(filters, "sharpen") \o FilterCall(filters, "brightness")
    \o FilterCall(filters, "contrast") \o FilterCall(filters, "saturation")

applyFilters(buf, filters) ==
  Ok(Applied([buf EXCEPT !.gray = @ \/ FilterSet(filters, "grayscale")], "filters"))

changeFormat(buf, format) ==
  LET r == CASE format \in {"jpeg", "jpg"} -> Ok(Applied(Encoded(buf, "jpeg"), "format"))
             [] format \in {"png", "webp", "avif"} -> Ok(Applied(Encoded(buf, format), "format"))
             [] OTHER -> Fail("Unsupported format: " \o format)
  IN  Wrap("Failed to convert image format: ", r)

compress(buf, options) ==
  LET originalFormat == IF Has(options, "format") THEN options.format ELSE buf.format
      r == changeFormat(buf, originalFormat)
  IN  Wrap("Failed to compress image: ",
           IF r.ok THEN Ok([r.buf EXCEPT !.applied = Append(buf.applied, "compress")]) ELSE r)

addWatermark(buf, watermark) == Wrap("Failed to add watermark: ", Ok(Applied(buf, "watermark")))

(***************************************************************************)
(* ImageProcessor.transform: the stages in the order of the if-statements; *)
(* a stage runs when its field is present and truthy, on the buffer the    *)
(* stage before it returned, and the first failure ends the run.           *)
(***************************************************************************)
Truthy(spec, k) ==
  /\ HasKey(spec, k)
  /\ CASE k \in {"flip", "mirror"} -> Get(spec, k) = TRUE
       [] k = "rotate" -> Get(spec, k) # 0
       [] k = "format" -> Get(spec, k) # ""
       [] OTHER -> TRUE

\* a pipeline that sizes before it turns
StageOrderResizeFirst == <<"resize", "rotate", "flip", "mirror", "crop", "filters", "watermark", "compress", "format">>

StageOrder == <<"rotate", "flip", "mirror", "crop", "resize", "filters", "watermark", "compress", "format">>

StageRuns(spec, stage) ==
  IF stage = "watermark"
  THEN HasKey(spec, "watermark") /\ Has(Get(spec, "watermark"), "image")
  ELSE Truthy(spec, stage)

StageApply(buf, spec, stage) ==
  CASE stage = "rotate" -> rotate(buf, Get(spec, "rotate"))
    [] stage = "flip" -> flip(buf)
    [] stage = "mirror" -> mirror(buf)
    [] stage = "crop" -> crop(buf, Get(spec, "crop"))
    [] stage = "resize" -> resize(buf, Get(spec, "resize"))
    [] stage = "filters" -> applyFilters(buf, Get(spec, "filters"))
    [] stage = "watermark" -> addWatermark(buf, Get(spec, "watermark"))
    [] stage = "compress" -> compress(buf, Get(spec, "compress"))
    [] stage = "format" -> changeFormat(buf, Get(spec, "format"))

\* a pipeline that goes on after a failure and reports the first error at the end
RECURSIVE RunStagesAll(_, _, _, _)
RunStagesAll(r, ran, spec, stages) ==
  IF stages = <<>> THEN [ok |-> r.ok, buf |-> r.buf, err |-> r.err, ran |-> ran]
  ELSE IF StageRuns(spec, Head(stages))
       THEN RunStagesAll(IF r.ok THEN StageApply(r.buf, spec, Head(stages)) ELSE r,
                         Append(ran, Head(stages)), spec, Tail(stages))
       ELSE RunStagesAll(r, ran, spec, Tail(stages))

\* ran: the stages entered so far, the failing one included
RECURSIVE RunStages(_, _, _, _)
RunStages(r, ran, spec, stages) ==
  IF stages = <<>> \/ ~r.ok THEN [ok |-> r.ok, buf |-> r.buf, err |-> r.err, ran |-> ran]
  ELSE IF StageRuns(spec, Head(stages))
       THEN RunStages(StageApply(r.buf, spec, Head(stages)), Append(ran, Head(stages)), spec, Tail(stages))
       ELSE RunStages(r, ran, spec, Tail(stages))

\* a pipeline that stamps its output with the time of the run
transformStamped(buf, spec) ==
  LET r == RunStages(Ok(buf), <<>>, spec, StageOrder)
  IN  [ok |-> r.ok, buf |-> IF r.ok THEN Applied(r.buf, ToString(now)) ELSE r.buf, ran |-> r.ran,
       err |-> IF r.ok THEN "" ELSE "Failed to transform image: " \o r.err]

transform(buf, spec) ==
  LET r == RunStages(Ok(buf), <<>>, spec, StageOrder)
  IN  [ok |-> r.ok, buf |-> r.buf, ran |-> r.ran,
       err |-> IF r.ok THEN "" ELSE "Failed to transform image: " \o r.err]

Put(f, k, v) == [x \in DOMAIN f \cup {k} |-> IF x = k THEN v ELSE f[x]]

Drop(f, k) == [x \in DOMAIN f \ {k} |-> f[x]]

bucketName == "bucket"

SourceKey(userId, filename) == "images/" \o userId \o "/" \o filename

SourceBuffer(format, w, h, len, packed) ==
  [width |-> w, height |-> h, format |-> format, gray |-> FALSE, applied |-> <<>>, len |-> len, packed |-> packed]

SourceImage(userId, filename, mimeType, buf) ==
  [userId |-> userId, filename |-> filename, mimeType |-> mimeType, size |-> buf.len,
   width |-> buf.width, height |-> buf.height, s3Key |-> SourceKey(userId, filename),
   s3Bucket |-> bucketName, publicUrl |-> "https://bucket.s3.amazonaws.com/" \o SourceKey(userId, filename),
   format |-> buf.format, transformations |-> <<>>]

BufferA == SourceBuffer("jpeg", 1600, 1200, 2000, 1500)

BufferB == SourceBuffer("gif", 800, 600, 1000, 950)

NoProbe == [spec |-> <<>>, buffer |-> BufferA, done |-> FALSE, result |-> transform(BufferA, <<>>)]

Init ==
  /\ images = (1 :> SourceImage("userA", "a.jpg", "image/jpeg", BufferA))
              @@ (2 :> SourceImage("userB", "b.gif", "image/gif", BufferB))
  /\ storage = (SourceKey("userA", "a.jpg") :> BufferA) @@ (SourceKey("userB", "b.gif") :> BufferB)
  /\ storageUsed = [u \in Users |-> IF u = "userA" THEN BufferA.len ELSE BufferB.len]
  /\ jobs = <<>>
  /\ work = <<>>
  /\ nextJobId = 1
  /\ nextImageId = 3
  /\ now = 0
  /\ faults = 0
  /\ history = <<>>
  /\ probe = NoProbe
  /\ lost = <<>>

(***************************************************************************)
(* utils/queue.js: addTransformJob, addOptimizeJob.  Bull stores the job   *)
(* in the wait list with progress 0 and no attempt made.                   *)
(***************************************************************************)
\* finishedOn of a job that has not finished
NotFinished == -1

NewJobActive(name, data, attempts) ==
  [id |-> nextJobId, name |-> name, data |-> data, attempts |-> attempts, state |-> "active",
   progress |-> 10, attemptsMade |-> 0, failedReason |-> Undefined, finishedOn |-> NotFinished,
   stalledCounter |-> 0]

NewJob(name, data, attempts) ==
  [id |-> nextJobId, name |-> name, data |-> data, attempts |-> attempts, state |-> "waiting",
   progress |-> 0, attemptsMade |-> 0, failedReason |-> Undefined, finishedOn |-> NotFinished,
   stalledCounter |-> 0]

QueueAdd(name, data, attempts) ==
  /\ nextJobId <= MaxJobs
  /\ jobs' = Put(jobs, nextJobId, NewJob(name, data, attempts))
  /\ history' = Put(history, nextJobId, <<>>)
  /\ nextJobId' = nextJobId + 1

addTransformJob(imageId, transformations, userId) ==
  QueueAdd("transform", [imageId |-> imageId, transformations |-> transformations, userId |-> userId],
           TransformAttempts)

addOptimizeJob(imageId) ==
  /\ QueueAdd("optimize", [imageId |-> imageId], OptimizeAttempts)
  /\ UNCHANGED <<images, storage, storageUsed, work, nextImageId, now, faults, probe, lost>>

(***************************************************************************)
(* models/Image.js: what save() checks on a new document.  A missing       *)
(* required path and a transformation type outside the enum fail the       *)
(* validation; filename carries a unique index.  The messages are those   *)
(* of Mongoose with its backquotes written as quotes.                      *)
(***************************************************************************)
TransformationTypes == {"resize", "crop", "rotate", "watermark", "flip", "mirror", "compress", "format", "filter"}

RequiredPaths == <<"userId", "filename", "mimeType", "size", "s3Key", "s3Bucket", "publicUrl">>

RECURSIVE RequiredErrors(_, _)
RequiredErrors(doc, paths) ==
  IF paths = <<>> THEN <<>>
  ELSE (IF ~Has(doc, Head(paths))
        THEN <<Head(paths) \o ": Path '" \o Head(paths) \o "' is required.">>
        ELSE <<>>) \o RequiredErrors(doc, Tail(paths))

RECURSIVE EnumErrors(_, _)
EnumErrors(ts, i) ==
  IF i > Len(ts) THEN <<>>
  ELSE (IF ts[i].type \in TransformationTypes THEN <<>>
        ELSE <<"transformations." \o ToString(i - 1) \o ".type: '" \o ts[i].type
               \o "' is not a valid enum value for path 'type'.">>)
       \o EnumErrors(ts, i + 1)

RECURSIVE Joined(_)
Joined(msgs) ==
  IF msgs = <<>> THEN ""
  ELSE IF Len(msgs) = 1 THEN msgs[1]
  ELSE msgs[1] \o ", " \o Joined(Tail(msgs))

\* the messages of the failed validators, <<>> when the document is valid
imageSchemaErrors(doc) == RequiredErrors(doc, RequiredPaths) \o EnumErrors(doc.transformations, 1)

imageSave(doc) ==
  IF imageSchemaErrors(doc) # <<>> THEN Fail("Image validation failed: " \o Joined(imageSchemaErrors(doc)))
  ELSE IF \E i \in DOMAIN images : images[i].filename = doc.filename
       THEN Fail("E11000 duplicate key error collection: images index: filename_1")
       ELSE Ok(doc)

(***************************************************************************)
(* utils/s3Service.js                                                      *)
(***************************************************************************)
generatePublicUrl(key) == "https://" \o bucketName \o ".s3.amazonaws.com/" \o key

uploadFileResult(key) == [success |-> TRUE, key |-> key, bucket |-> bucketName, publicUrl |-> generatePublicUrl(key)]

(***************************************************************************)
(* Bull, as configured by the options of addTransformJob / addOptimizeJob: *)
(* attempts: 3 | 2, backoff, removeOnComplete: true, removeOnFail: false.  *)
(* A worker moves a waiting job to active and calls the processor.  When   *)
(* the processor throws, the attempt is counted and the message is stored  *)
(* as failedReason; with attempts left the job is parked in delayed for    *)
(* the backoff and then put back to waiting, otherwise it is moved to      *)
(* failed.  When the processor returns, the job is finished as completed   *)
(* and, with removeOnComplete, deleted from the queue.                     *)
(***************************************************************************)
removeOnComplete == TRUE

removeOnFail == FALSE

Running(j, pc) == j \in DOMAIN work /\ work[j].pc = pc

\* what one call of the processor did: the await it threw at ("done" when it
\* returned) with the message, the pipeline stages it entered, whether its
\* upload and its save went through
\* the value the processor returns
ReturnValue(j) ==
  IF jobs[j].name = "optimize" THEN [success |-> TRUE, optimized |-> TRUE]
  ELSE [success |-> TRUE, transformedImageId |-> work[j].transformedImageId,
        publicUrl |-> images[work[j].transformedImageId].publicUrl]

NoResult == [success |-> FALSE]

Attempt(j, err, ran) ==
  [name |-> jobs[j].name, error |-> err, stage |-> IF err = "" THEN "done" ELSE work[j].pc, ran |-> ran,
   uploaded |-> work[j].uploaded, saved |-> work[j].saved,
   result |-> IF err = "" THEN ReturnValue(j) ELSE NoResult]

AfterFailureNoBackoff(job, err) ==
  [job EXCEPT !.attemptsMade = @ + 1,
              !.failedReason = err,
              !.state = IF job.attemptsMade + 1 < job.attempts THEN "waiting" ELSE "failed",
              !.finishedOn = IF job.attemptsMade + 1 < job.attempts THEN @ ELSE now]

AfterFailureOneMore(job, err) ==
  [job EXCEPT !.attemptsMade = @ + 1,
              !.failedReason = err,
              !.state = IF job.attemptsMade + 1 <= job.attempts THEN "delayed" ELSE "failed",
              !.finishedOn = IF job.attemptsMade + 1 <= job.attempts THEN @ ELSE now]

\* a failed attempt that is counted but never moved out of the active list
AfterFailureNotMoved(job, err) ==
  [job EXCEPT !.attemptsMade = @ + 1,
              !.failedReason = err]

AfterFailure(job, err) ==
  [job EXCEPT !.attemptsMade = @ + 1,
              !.failedReason = err,
              !.state = IF job.attemptsMade + 1 < job.attempts THEN "delayed" ELSE "failed",
              !.finishedOn = IF job.attemptsMade + 1 < job.attempts THEN @ ELSE now]

failedWith(j, err, ran) ==
  /\ jobs' = IF jobs[j].attemptsMade + 1 >= jobs[j].attempts /\ removeOnFail
             THEN Drop(jobs, j)
             ELSE [jobs EXCEPT ![j] = AfterFailure(jobs[j], err)]
  /\ work' = Drop(work, j)
  /\ history' = [history EXCEPT ![j] = Append(@, Attempt(j, err, ran))]

moveToFailed(j, err) == failedWith(j, err, work[j].ran)

moveToCompleted(j) ==
  /\ jobs' = IF removeOnComplete THEN Drop(jobs, j)
             ELSE [jobs EXCEPT ![j].state = "completed", ![j].progress = 100, ![j].finishedOn = now]
  /\ work' = Drop(work, j)
  /\ history' = [history EXCEPT ![j] = Append(@, Attempt(j, "", work[j].ran))]

ContinueCountdown(j, progress, locals) ==
  /\ jobs' = [jobs EXCEPT ![j].progress = 100 - progress]
  /\ work' = [work EXCEPT ![j] = locals]
  /\ UNCHANGED history

\* the processor goes on to its next await
Continue(j, progress, locals) ==
  /\ jobs' = [jobs EXCEPT ![j].progress = progress]
  /\ work' = [work EXCEPT ![j] = locals]
  /\ UNCHANGED history

\* a worker takes a waiting job; the processor runs up to its first await
StartJob(j) ==
  /\ j \in DOMAIN jobs
  /\ jobs[j].state = "waiting"
  /\ Cardinality(DOMAIN work) < Concurrency
  /\ jobs' = [jobs EXCEPT ![j].state = "active", ![j].progress = 10]
  /\ work' = Put(work, j, [pc |-> "findImage", ran |-> <<>>, uploaded |-> FALSE, saved |-> FALSE])
  /\ UNCHANGED <<images, storage, storageUsed, nextJobId, nextImageId, now, faults, history, probe, lost>>

\* the backoff delay of a parked job has passed
PromoteDelayed(j) ==
  /\ j \in DOMAIN jobs
  /\ jobs[j].state = "delayed"
  /\ jobs' = [jobs EXCEPT ![j].state = "waiting"]
  /\ UNCHANGED <<images, storage, storageUsed, work, nextJobId, nextImageId, now, faults, history, probe, lost>>

Tick ==
  /\ now < MaxTime
  /\ now' = now + 1
  /\ UNCHANGED <<images, storage, storageUsed, jobs, work, nextJobId, nextImageId, faults, history, probe, lost>>

\* the grace period of the two clean calls, 24 * 60 * 60 * 1000 ms; one
\* step of now is as long
Grace == 1

CleanedWhatever(q, grace, type) == [j \in {i \in DOMAIN q : q[i].state # type} |-> q[j]]

\* Bull clean(grace, type): the jobs of that type that finished more than
\* grace ago are removed (a Bull that compares the time the job was
\* created removes them no later)
Cleaned(q, grace, type) ==
  [j \in {i \in DOMAIN q : ~(q[i].state = type /\ q[i].finishedOn < now - grace)} |-> q[j]]

\* a process loads utils/queue.js: the two clean calls at the end of the module
Startup ==
  /\ jobs' = Cleaned(Cleaned(jobs, Grace, "completed"), Grace, "failed")
  /\ UNCHANGED <<images, storage, storageUsed, work, nextJobId, nextImageId, now, faults, history, probe, lost>>

(***************************************************************************)
(* imageProcessingQueue.process('transform', ...), one action per await.   *)
(***************************************************************************)
formatMimeTypes == [jpeg |-> "image/jpeg", jpg |-> "image/jpeg", png |-> "image/png",
                    webp |-> "image/webp", avif |-> "image/avif"]

\* a processor without the check of what findById returned: it goes on and
\* trips over the null record when it reads the key to download
TransformFindImageSkipping(j) ==
  /\ Running(j, "findImage")
  /\ jobs[j].name = "transform"
  /\ IF jobs[j].data.imageId \notin DOMAIN images
     THEN moveToFailed(j, "Cannot read properties of null (reading 's3Key')")
     ELSE Continue(j, 20, [work[j] EXCEPT !.pc = "download"] @@ [image |-> images[jobs[j].data.imageId]])
  /\ UNCHANGED <<images, storage, storageUsed, nextJobId, nextImageId, now, faults, probe, lost>>

TransformFindImage(j) ==
  /\ Running(j, "findImage")
  /\ jobs[j].name = "transform"
  /\ IF jobs[j].data.imageId \notin DOMAIN images
     THEN moveToFailed(j, "Image not found")
     ELSE Continue(j, 20, [work[j] EXCEPT !.pc = "download"] @@ [image |-> images[jobs[j].data.imageId]])
  /\ UNCHANGED <<images, storage, storageUsed, nextJobId, nextImageId, now, faults, probe, lost>>

\* s3Service.downloadFile; ok = FALSE is a failing S3 request
Download(j, ok, progress) ==
  /\ Running(j, "download")
  /\ ok \/ faults < MaxFaults
  /\ faults' = IF ok THEN faults ELSE faults + 1
  /\ IF ~ok THEN moveToFailed(j, "Failed to download file from S3: Service Unavailable")
     ELSE IF work[j].image.s3Key \notin DOMAIN storage
     THEN moveToFailed(j, "Failed to download file from S3: The specified key does not exist.")
     ELSE Continue(j, progress, [work[j] EXCEPT !.pc = "process"] @@ [buffer |-> storage[work[j].image.s3Key]])
  /\ UNCHANGED <<images, storage, storageUsed, nextJobId, nextImageId, now, probe, lost>>

TransformDownload(j) ==
  \E ok \in BOOLEAN : Running(j, "download") /\ jobs[j].name = "transform" /\ Download(j, ok, 40)

transformedFilename(image) == "transformed_" \o ToString(now) \o "_" \o image.filename

\* a derived image written over its source
transformedS3KeyInPlace(userId, image) == image.s3Key

transformedS3Key(userId, image) == "images/" \o userId \o "/transformed/" \o transformedFilename(image)

transformedMimeType(image, transformations) ==
  IF Truthy(transformations, "format") /\ Get(transformations, "format") \in DOMAIN formatMimeTypes
  THEN formatMimeTypes[Get(transformations, "format")]
  ELSE image.mimeType

TransformApply(j) ==
  /\ Running(j, "process")
  /\ jobs[j].name = "transform"
  /\ LET r == transform(work[j].buffer, jobs[j].data.transformations)
     IN  IF ~r.ok
         THEN failedWith(j, r.err, r.ran)
         ELSE Continue(j, 70, [work[j] EXCEPT !.pc = "upload", !.buffer = r.buf, !.ran = r.ran]
                              @@ [filename |-> transformedFilename(work[j].image),
                                  s3Key |-> transformedS3Key(jobs[j].data.userId, work[j].image),
                                  mimeType |-> transformedMimeType(work[j].image, jobs[j].data.transformations)])
  /\ UNCHANGED <<images, storage, storageUsed, nextJobId, nextImageId, now, faults, probe, lost>>

TransformUpload(j) ==
  \E ok \in BOOLEAN :
    /\ Running(j, "upload")
    /\ jobs[j].name = "transform"
    /\ ok \/ faults < MaxFaults
    /\ faults' = IF ok THEN faults ELSE faults + 1
    /\ IF ~ok
       THEN /\ moveToFailed(j, "Failed to upload file to S3: Service Unavailable")
            /\ UNCHANGED storage
       ELSE /\ storage' = Put(storage, work[j].s3Key, work[j].buffer)
            /\ Continue(j, 80, [work[j] EXCEPT !.pc = "save", !.uploaded = TRUE]
                               @@ [uploadResult |-> uploadFileResult(work[j].s3Key)])
    /\ UNCHANGED <<images, storageUsed, nextJobId, nextImageId, now, probe, lost>>

transformedImageOf(w, job) ==
  LET metadata == getMetadata(w.buffer)
      t == job.data.transformations
  IN  [userId |-> job.data.userId, filename |-> w.filename, mimeType |-> w.mimeType,
       size |-> BufferLength(w.buffer), width |-> metadata.width, height |-> metadata.height,
       s3Key |-> w.s3Key, format |-> metadata.format,
       transformations |-> [i \in 1..Len(t) |-> [type |-> t[i][1], parameters |-> t[i][2]]]]
      @@ Prop("s3Bucket", w.uploadResult, "bucket")
      @@ Prop("publicUrl", w.uploadResult, "location")

transformedImage(j) == transformedImageOf(work[j], jobs[j])

TransformSave(j) ==
  /\ Running(j, "save")
  /\ jobs[j].name = "transform"
  /\ LET r == imageSave(transformedImage(j))
     IN  IF ~r.ok
         THEN /\ moveToFailed(j, r.err)
              /\ UNCHANGED <<images, nextImageId, probe, lost>>
         ELSE /\ images' = Put(images, nextImageId, r.buf)
              /\ nextImageId' = nextImageId + 1
              /\ Continue(j, 90, [work[j] EXCEPT !.pc = "usage", !.saved = TRUE]
                                 @@ [transformedImageId |-> nextImageId])
  /\ UNCHANGED <<storage, storageUsed, nextJobId, now, faults, probe, lost>>

updateStorageUsage(userId, bytes) == storageUsed' = [storageUsed EXCEPT ![userId] = @ + bytes]

TransformUsage(j) ==
  /\ Running(j, "usage")
  /\ jobs[j].name = "transform"
  /\ updateStorageUsage(jobs[j].data.userId, BufferLength(work[j].buffer))
  /\ moveToCompleted(j)
  /\ UNCHANGED <<images, storage, nextJobId, nextImageId, now, faults, probe, lost>>

\* the two awaits that persist the result: transformedImage.save(), then
\* User.findById / user.updateStorageUsage and the return
TransformPersist(j) == IF Running(j, "save") THEN TransformSave(j) ELSE TransformUsage(j)

(***************************************************************************)
(* imageProcessingQueue.process('optimize', ...)                           *)
(***************************************************************************)
OptimizeFindImage(j) ==
  /\ Running(j, "findImage")
  /\ jobs[j].name = "optimize"
  /\ IF jobs[j].data.imageId \notin DOMAIN images
     THEN moveToFailed(j, "Image not found")
     ELSE Continue(j, 30, [work[j] EXCEPT !.pc = "download"] @@ [image |-> images[jobs[j].data.imageId]])
  /\ UNCHANGED <<images, storage, storageUsed, nextJobId, nextImageId, now, faults, probe, lost>>

OptimizeDownload(j) ==
  \E ok \in BOOLEAN : Running(j, "download") /\ jobs[j].name = "optimize" /\ Download(j, ok, 50)

ReducesByFifth(length, size) == length * 10 <= size * 8

\* optimizedBuffer.length < image.size * 0.8
ReducesSignificantly(length, size) == length * 10 < size * 8

OptimizeCompress(j) ==
  /\ Running(j, "process")
  /\ jobs[j].name = "optimize"
  /\ LET r == compress(work[j].buffer, [quality |-> 85, format |-> work[j].image.format])
     IN  IF ~r.ok THEN moveToFailed(j, r.err)
         ELSE IF ReducesSignificantly(BufferLength(r.buf), work[j].image.size)
         THEN Continue(j, 70, [work[j] EXCEPT !.pc = "upload", !.buffer = r.buf])
         ELSE moveToCompleted(j)
  /\ UNCHANGED <<images, storage, storageUsed, nextJobId, nextImageId, now, faults, probe, lost>>

OptimizeUpload(j) ==
  \E ok \in BOOLEAN :
    /\ Running(j, "upload")
    /\ jobs[j].name = "optimize"
    /\ ok \/ faults < MaxFaults
    /\ faults' = IF ok THEN faults ELSE faults + 1
    /\ IF ~ok
       THEN /\ moveToFailed(j, "Failed to upload file to S3: Service Unavailable")
            /\ UNCHANGED storage
       ELSE /\ storage' = Put(storage, work[j].image.s3Key, work[j].buffer)
            /\ Continue(j, 70, [work[j] EXCEPT !.pc = "save", !.uploaded = TRUE])
    /\ UNCHANGED <<images, storageUsed, nextJobId, nextImageId, now, probe, lost>>

\* image.size = optimizedBuffer.length; image.save()
OptimizeSave(j) ==
  /\ Running(j, "save")
  /\ jobs[j].name = "optimize"
  /\ IF jobs[j].data.imageId \notin DOMAIN images
     THEN /\ moveToFailed(j, "No document found for query")
          /\ UNCHANGED images
     ELSE /\ images' = [images EXCEPT ![jobs[j].data.imageId].size = BufferLength(work[j].buffer)]
          /\ Continue(j, 70, [work[j] EXCEPT !.pc = "usage", !.saved = TRUE])
  /\ UNCHANGED <<storage, storageUsed, nextJobId, nextImageId, now, faults, probe, lost>>

OptimizeUsage(j) ==
  /\ Running(j, "usage")
  /\ jobs[j].name = "optimize"
  /\ updateStorageUsage(work[j].image.userId, -(work[j].image.size - BufferLength(work[j].buffer)))
  /\ moveToCompleted(j)
  /\ UNCHANGED <<images, storage, nextJobId, nextImageId, now, faults, probe, lost>>

(***************************************************************************)
(* The storage quota.  models/User.js is not part of the sources at hand:  *)
(* storageLimit and hasStorageSpace are written from their uses in         *)
(* routes/images.js (the upload handler asks user.hasStorageSpace(size),   *)
(* the storage report subtracts the usage from user.storageLimit).  The    *)
(* limit of the model is the usage userA starts with: userA has no space   *)
(* left, userB has.                                                        *)
(***************************************************************************)
storageLimit == 2000

hasStorageSpace(user, size) == storageUsed[user] + size <= storageLimit

(***************************************************************************)
(* routes/images.js                                                        *)
(***************************************************************************)
\* mongoose.Types.ObjectId.isValid: the ids of the model are numbers, a
\* negative one stands for a string that is no ObjectId
ObjectIdValid(id) == id >= 0

validate(body) == transformationValidation(body)

Response(status, message) == [status |-> status, message |-> message, jobId |-> 0]

\* POST /api/images/:id/transform, for a request that has passed auth and
\* the rate limiters: the response the handler sends ...
PostTransformResponse(user, id, body) ==
  IF validate(body).error THEN Response(400, "Validation error")
  ELSE IF ~ObjectIdValid(id) THEN Response(400, "Invalid image ID")
  ELSE IF ~(id \in DOMAIN images /\ images[id].userId = user) THEN Response(404, "Image not found")
  ELSE [status |-> 202, message |-> "Transformation job queued successfully", jobId |-> nextJobId]

\* ... and what it does before sending it: nothing at all unless it
\* answers 202
PostTransform(user, id, body) ==
  /\ nextJobId <= MaxJobs
  /\ PostTransformResponse(user, id, body).status = 202
  /\ addTransformJob(id, validate(body).value, user)
  /\ UNCHANGED <<images, storage, storageUsed, work, nextImageId, now, faults, probe, lost>>

\* DELETE /api/images/:id
DeleteImageResponse(user, id) ==
  IF ~ObjectIdValid(id) THEN Response(400, "Invalid image ID")
  ELSE IF ~(id \in DOMAIN images /\ images[id].userId = user) THEN Response(404, "Image not found")
  ELSE Response(200, "Image deleted successfully")

DeleteImage(user, id) ==
  /\ DeleteImageResponse(user, id).status = 200
  /\ storage' = Drop(storage, images[id].s3Key)
  /\ updateStorageUsage(user, -images[id].size)
  /\ images' = Drop(images, id)
  /\ UNCHANGED <<jobs, work, nextJobId, nextImageId, now, faults, history, probe, lost>>

(***************************************************************************)
(* routes/jobs.js.  The two GET handlers change nothing; each is the       *)
(* response it computes from the queue.                                    *)
(***************************************************************************)
Snapshot(job) ==
  [id |-> job.id, type |-> job.name, state |-> job.state, progress |-> job.progress,
   data |-> job.data, failedReason |-> job.failedReason]

\* GET /api/jobs/:id
GetJob(user, id) ==
  IF id \notin DOMAIN jobs
  THEN [status |-> 404, message |-> "Job not found", job |-> <<>>]
  ELSE [status |-> 200, message |-> "", job |-> Snapshot(jobs[id])]

RECURSIVE Descending(_)
Descending(S) ==
  IF S = {} THEN <<>>
  ELSE LET m == CHOOSE x \in S : \A y \in S : y <= x
       IN  <<m>> \o Descending(S \ {m})

\* Bull getJobs: of every requested type the entries start..end, newest first
Range(seq, start, end) == [i \in 1..(IF Len(seq) < end + 1 THEN Len(seq) - start ELSE end + 1 - start) |-> seq[i + start]]

RECURSIVE getJobs(_, _, _)
getJobs(types, start, end) ==
  IF types = <<>> THEN <<>>
  ELSE LET ids == Descending({j \in DOMAIN jobs : jobs[j].state = Head(types)})
       IN  (IF start >= Len(ids) THEN <<>> ELSE Range(ids, start, end)) \o getJobs(Tail(types), start, end)

OwnedByAnyone(user, id) == Has(jobs[id].data, "userId")

OwnedBy(user, id) == Has(jobs[id].data, "userId") /\ jobs[id].data.userId = user

\* GET /api/jobs?page=&limit=&state=   (state "" = no filter given)
ListJobs(user, state, page, limit) ==
  LET found == getJobs(IF state # "" THEN <<state>> ELSE <<"waiting", "active", "completed", "failed">>,
                       (page - 1) * limit, limit)
      userJobs == SelectSeq(found, LAMBDA id : OwnedBy(user, id))
  IN  [status |-> 200, jobs |-> [i \in 1..Len(userJobs) |-> Snapshot(jobs[userJobs[i]])]]

(***************************************************************************)
(* The requests of the model.                                              *)
(***************************************************************************)
SpecLifecycle ==
  << <<"resize", [width |-> 800, height |-> 600]>>, <<"format", "webp">>, <<"filters", [grayscale |-> TRUE]>> >>

SpecCropOutside == << <<"format", "png">>, <<"crop", [width |-> 5000, height |-> 10]>>, <<"rotate", 90>> >>

SpecCropNoHeight == << <<"crop", [width |-> 10]>> >>

SpecResizeTooWide == << <<"resize", [width |-> 4001, height |-> 100]>> >>

SpecFormatGif == << <<"format", "gif">> >>

SpecRotateTooFar == << <<"rotate", 361>>, <<"flip", TRUE>> >>

InvalidBodies == {SpecCropNoHeight, SpecResizeTooWide, SpecFormatGif, SpecRotateTooFar}

RequestBodies == {SpecLifecycle, SpecCropOutside} \cup InvalidBodies

\* no ObjectId, the two images, an id no image has
RequestIds == {-1, 1, 2, 9}

JobIds == 1..MaxJobs

Next ==
  \/ \E user \in Users, id \in RequestIds, body \in RequestBodies : PostTransform(user, id, body)
  \/ \E id \in DOMAIN images : addOptimizeJob(id)
  \/ \E j \in JobIds : StartJob(j)
  \/ \E j \in JobIds : PromoteDelayed(j)
  \/ \E j \in JobIds : TransformFindImage(j)
  \/ \E j \in JobIds : TransformDownload(j)
  \/ \E j \in JobIds : TransformApply(j)
  \/ \E j \in JobIds : TransformUpload(j)
  \/ \E j \in JobIds : TransformPersist(j)
  \/ \E j \in JobIds : OptimizeFindImage(j)
  \/ \E j \in JobIds : OptimizeDownload(j)
  \/ \E j \in JobIds : OptimizeCompress(j)
  \/ \E j \in JobIds : OptimizeUpload(j)
  \/ \E j \in JobIds : OptimizeSave(j)
  \/ \E j \in JobIds : OptimizeUsage(j)

\* the queue, its workers and the submissions
Spec == Init /\ [][Next]_vars

NextWithDelete ==
  \/ Next
  \/ \E user \in Users, id \in RequestIds : DeleteImage(user, id)
  \/ Tick

\* the same with images being deleted and time passing
SpecWithDelete == Init /\ [][NextWithDelete]_vars

(***************************************************************************)
(* ImageProcessor.transform on its own: a validated specification and a    *)
(* source buffer are chosen, then transform is called once.                *)
(***************************************************************************)
BufferTall == SourceBuffer("png", 150, 300, 400, 300)

ProbePairs ==
  { <<"rotate", 90>>, <<"crop", [width |-> 200, height |-> 100]>>,
    <<"resize", [width |-> 100, height |-> 100]>>, <<"filters", [grayscale |-> TRUE]>>,
    <<"format", "webp">> }

\* the objects with up to MaxKeys of these pairs, in every key order
ProbeSpecs ==
  UNION { { s \in [1..n -> ProbePairs] : \A a, b \in 1..n : a # b => s[a] # s[b] } : n \in 0..MaxKeys }

ProbeInit ==
  /\ images = <<>>
  /\ storage = <<>>
  /\ storageUsed = [u \in Users |-> 0]
  /\ jobs = <<>>
  /\ work = <<>>
  /\ nextJobId = 1
  /\ nextImageId = 1
  /\ now = 0
  /\ faults = 0
  /\ history = <<>>
  /\ lost = <<>>
  /\ \E s \in ProbeSpecs, b \in {BufferA, BufferTall} :
       probe = [spec |-> validate(s).value, buffer |-> b, done |-> FALSE, result |-> transform(b, <<>>)]

ProbeTransform ==
  /\ ~probe.done
  /\ probe' = [probe EXCEPT !.done = TRUE, !.result = transform(probe.buffer, probe.spec)]
  /\ UNCHANGED <<images, storage, storageUsed, jobs, work, nextJobId, nextImageId, now, faults, history, lost>>

ProbeNext == ProbeTransform

SpecPipeline == ProbeInit /\ [][ProbeNext]_vars

\* transform jobs that fail in the pipeline, the workers, time, and
\* processes that load the queue
RetentionNext ==
  \/ \E user \in Users, id \in RequestIds : PostTransform(user, id, SpecCropOutside)
  \/ \E j \in JobIds : StartJob(j)
  \/ \E j \in JobIds : PromoteDelayed(j)
  \/ \E j \in JobIds : TransformFindImage(j)
  \/ \E j \in JobIds : TransformDownload(j)
  \/ \E j \in JobIds : TransformApply(j)
  \/ Tick
  \/ Startup

SpecRetention == Init /\ [][RetentionNext]_vars

(***************************************************************************)
(* The optimize processor on its own: one uploaded image whose bytes       *)
(* re-encode to between 60% and 95% of the recorded size, optimize jobs    *)
(* for it, and the workers.                                                *)
(***************************************************************************)
OptimizeBuffers == {SourceBuffer("png", 100, 100, 1000, packed) : packed \in {600, 750, 799, 800, 801, 950}}

OptimizeInit ==
  /\ \E buf \in OptimizeBuffers :
       /\ images = (1 :> SourceImage("userA", "a.png", "image/png", buf))
       /\ storage = (SourceKey("userA", "a.png") :> buf)
       /\ storageUsed = [u \in Users |-> IF u = "userA" THEN buf.len ELSE 0]
  /\ jobs = <<>>
  /\ work = <<>>
  /\ nextJobId = 1
  /\ nextImageId = 2
  /\ now = 0
  /\ faults = 0
  /\ history = <<>>
  /\ probe = NoProbe
  /\ lost = <<>>

OptimizeNext ==
  \/ \E id \in DOMAIN images : addOptimizeJob(id)
  \/ \E j \in JobIds : StartJob(j)
  \/ \E j \in JobIds : PromoteDelayed(j)
  \/ \E j \in JobIds : OptimizeFindImage(j)
  \/ \E j \in JobIds : OptimizeDownload(j)
  \/ \E j \in JobIds : OptimizeCompress(j)
  \/ \E j \in JobIds : OptimizeUpload(j)
  \/ \E j \in JobIds : OptimizeSave(j)
  \/ \E j \in JobIds : OptimizeUsage(j)

SpecOptimize == OptimizeInit /\ [][OptimizeNext]_vars

(***************************************************************************)
(* ImageProcessor.transform on specifications that ask for a watermark:    *)
(* the watermark object as the client sends it, with or without a text,    *)
(* options and overlay bytes, alone or next to another stage; the          *)
(* specification reaches transform through the request validation, as in a *)
(* transform job, or as it is.                                             *)
(***************************************************************************)
WatermarkObjects ==
  { t @@ o @@ i : t \in {<<>>, [text |-> "(c) me"]},
                  o \in {<<>>, [options |-> [gravity |-> "center"]]},
                  i \in {<<>>, [image |-> BufferB]} }

WatermarkCompanions == { <<"rotate", 90>>, <<"resize", [width |-> 100, height |-> 100]>>, <<"format", "webp">> }

WatermarkSpecs ==
  { << <<"watermark", w>> >> : w \in WatermarkObjects }
  \cup { << <<"watermark", w>>, c >> : w \in WatermarkObjects, c \in WatermarkCompanions }
  \cup { << c, <<"watermark", w>> >> : w \in WatermarkObjects, c \in WatermarkCompanions }

WatermarkInit ==
  /\ images = <<>>
  /\ storage = <<>>
  /\ storageUsed = [u \in Users |-> 0]
  /\ jobs = <<>>
  /\ work = <<>>
  /\ nextJobId = 1
  /\ nextImageId = 1
  /\ now = 0
  /\ faults = 0
  /\ history = <<>>
  /\ lost = <<>>
  /\ \E s \in WatermarkSpecs, validated \in BOOLEAN :
       probe = [request |-> s, validated |-> validated,
                spec |-> IF validated THEN validate(s).value ELSE s,
                buffer |-> BufferA, done |-> FALSE, result |-> transform(BufferA, <<>>)]

WatermarkNext == ProbeTransform

SpecWatermark == WatermarkInit /\ [][WatermarkNext]_vars

(***************************************************************************)
(* Two calls of ImageProcessor.transform on the same buffer and the same   *)
(* validated specification, at any two times.                              *)
(***************************************************************************)
NotRun == [ok |-> FALSE, buf |-> <<>>, ran |-> <<>>, err |-> "not run"]

TwoRunsInit ==
  /\ images = <<>>
  /\ storage = <<>>
  /\ storageUsed = [u \in Users |-> 0]
  /\ jobs = <<>>
  /\ work = <<>>
  /\ nextJobId = 1
  /\ nextImageId = 1
  /\ now = 0
  /\ faults = 0
  /\ history = <<>>
  /\ lost = <<>>
  /\ \E s \in ProbeSpecs, b \in {BufferA, BufferTall} :
       probe = [spec |-> validate(s).value, buffer |-> b, runs |-> [n \in {1, 2} |-> NotRun]]

RunTransform(n) ==
  /\ probe.runs[n] = NotRun
  /\ probe' = [probe EXCEPT !.runs[n] = transform(probe.buffer, probe.spec)]
  /\ UNCHANGED <<images, storage, storageUsed, jobs, work, nextJobId, nextImageId, now, faults, history, lost>>

TwoRunsNext ==
  \/ \E n \in {1, 2} : RunTransform(n)
  \/ Tick

SpecTwoRuns == TwoRunsInit /\ [][TwoRunsNext]_vars

(***************************************************************************)
(* The keys of derived images.  The transform processor derives the key of *)
(* an attempt from Date.now(), the job's userId and the filename of the    *)
(* source image (part_006 100-101).  Three jobs, two of them on the same   *)
(* image of the same owner; each makes up to three attempts, a retry       *)
(* coming after its backoff delay, that is at a later time; attempts of    *)
(* different jobs can fall in the same millisecond (several workers).      *)
(***************************************************************************)
KeyJobs == (1 :> [userId |-> "userA", imageId |-> 1]) @@ (2 :> [userId |-> "userA", imageId |-> 1])
           @@ (3 :> [userId |-> "userB", imageId |-> 2])

NeverRun == -1

KeysInit ==
  /\ images = (1 :> SourceImage("userA", "a.jpg", "image/jpeg", BufferA))
              @@ (2 :> SourceImage("userB", "b.gif", "image/gif", BufferB))
  /\ storage = (SourceKey("userA", "a.jpg") :> BufferA) @@ (SourceKey("userB", "b.gif") :> BufferB)
  /\ storageUsed = [u \in Users |-> IF u = "userA" THEN BufferA.len ELSE BufferB.len]
  /\ jobs = <<>>
  /\ work = <<>>
  /\ nextJobId = 1
  /\ nextImageId = 3
  /\ now = 0
  /\ faults = 0
  /\ history = <<>>
  /\ lost = <<>>
  /\ probe = [uploads |-> {}, last |-> [j \in DOMAIN KeyJobs |-> NeverRun], made |-> [j \in DOMAIN KeyJobs |-> 0]]

\* one attempt of job j gets to the upload
DeriveKey(j) ==
  /\ probe.made[j] < TransformAttempts
  /\ probe.last[j] < now
  /\ probe' = [uploads |-> probe.uploads \cup
                             {[job |-> j, attempt |-> probe.made[j] + 1, userId |-> KeyJobs[j].userId,
                               key |-> transformedS3Key(KeyJobs[j].userId, images[KeyJobs[j].imageId])]},
               last |-> [probe.last EXCEPT ![j] = now],
               made |-> [probe.made EXCEPT ![j] = @ + 1]]
  /\ UNCHANGED <<images, storage, storageUsed, jobs, work, nextJobId, nextImageId, now, faults, history, lost>>

KeysNext ==
  \/ \E j \in DOMAIN KeyJobs : DeriveKey(j)
  \/ Tick

SpecKeys == KeysInit /\ [][KeysNext]_vars

(***************************************************************************)
(* middleware/auth.js.  An Authorization header is its first seven         *)
(* characters and the rest (authHeader.startsWith('Bearer '),              *)
(* authHeader.substring(7)); a token is what jwt.verify finds in it: the   *)
(* id it was issued for, whether its signature is made with JWT_SECRET,    *)
(* and whether it has expired (a string that is no JWT has a bad           *)
(* signature).  accounts: what User.findById returns for an id.            *)
(***************************************************************************)
NoHeader == [prefix |-> "", rest |-> [id |-> "", signed |-> FALSE, expired |-> FALSE, empty |-> TRUE]]

AccountIds == {"userA", "userB"}

AuthTokens ==
  [id : AccountIds, signed : BOOLEAN, expired : BOOLEAN, empty : {FALSE}]

AuthHeaders ==
  {NoHeader}
  \cup {[prefix |-> "Bearer ", rest |-> NoHeader.rest]}
  \cup [prefix : {"Bearer ", "bearer ", "Basic ", "Bearer"}, rest : AuthTokens]

AccountStates == {"active", "inactive", "missing"}

AuthResponse(status, message, entered) == [status |-> status, message |-> message, entered |-> entered]

\* jwt.verify(token, process.env.JWT_SECRET) does not throw
Verifies(token) == token.signed /\ ~token.expired

authAnyAccount(header, accounts, dbOk) ==
  IF header = NoHeader \/ header.prefix # "Bearer "
  THEN AuthResponse(401, "Access denied. No token provided.", FALSE)
  ELSE IF header.rest.empty
  THEN AuthResponse(401, "Access denied. No token provided.", FALSE)
  ELSE IF ~Verifies(header.rest) \/ ~dbOk
  THEN AuthResponse(401, "Invalid token.", FALSE)
  ELSE IF accounts[header.rest.id] = "missing"
  THEN AuthResponse(401, "User not found or inactive.", FALSE)
  ELSE AuthResponse(200, "", TRUE)

\* dbOk = FALSE: User.findById rejects; the inner catch answers for it too
auth(header, accounts, dbOk) ==
  IF header = NoHeader \/ header.prefix # "Bearer "
  THEN AuthResponse(401, "Access denied. No token provided.", FALSE)
  ELSE IF header.rest.empty
  THEN AuthResponse(401, "Access denied. No token provided.", FALSE)
  ELSE IF ~Verifies(header.rest) \/ ~dbOk
  THEN AuthResponse(401, "Invalid token.", FALSE)
  ELSE IF accounts[header.rest.id] # "active"
  THEN AuthResponse(401, "User not found or inactive.", FALSE)
  ELSE AuthResponse(200, "", TRUE)

AuthInit ==
  /\ images = <<>>
  /\ storage = <<>>
  /\ storageUsed = [u \in Users |-> 0]
  /\ jobs = <<>>
  /\ work = <<>>
  /\ nextJobId = 1
  /\ nextImageId = 1
  /\ now = 0
  /\ faults = 0
  /\ history = <<>>
  /\ lost = <<>>
  /\ \E h \in AuthHeaders, a \in [AccountIds -> AccountStates] :
       probe = [header |-> h, accounts |-> a, done |-> FALSE, dbOk |-> TRUE,
                response |-> AuthResponse(0, "", FALSE)]

\* a request to a route behind auth: the response of the middleware, or
\* status 200 standing for next() having been called
AuthRequest ==
  /\ ~probe.done
  /\ \E dbOk \in BOOLEAN :
       probe' = [probe EXCEPT !.done = TRUE, !.dbOk = dbOk,
                              !.response = auth(probe.header, probe.accounts, dbOk)]
  /\ UNCHANGED <<images, storage, storageUsed, jobs, work, nextJobId, nextImageId, now, faults, history, lost>>

AuthNext == AuthRequest

SpecAuth == AuthInit /\ [][AuthNext]_vars

(***************************************************************************)
(* server.js (the auth routes): POST /login.  Usernames are compared       *)
(* lower-cased; the accounts are keyed by the stored, lower-cased          *)
(* username.  models/User.js is not part of the sources at hand:           *)
(* comparePassword is taken as the comparison of the password sent with    *)
(* the one the account was created with.                                   *)
(***************************************************************************)
Usernames == {"alice", "Alice", "bob"}

toLowerCase(s) == IF s = "Alice" THEN "alice" ELSE s

StoredNames == {toLowerCase(u) : u \in Usernames}

Passwords == {"password123", "wrongpassword"}

NoAccount == [password |-> "", isActive |-> FALSE, exists |-> FALSE]

Accounts == {NoAccount} \cup [password : Passwords, isActive : BOOLEAN, exists : {TRUE}]

comparePassword(user, password) == user.password = password

LoginResponse(status, message) == [status |-> status, message |-> message]

login(body, accounts) ==
  LET user == accounts[toLowerCase(body.username)]
  IN  IF ~user.exists THEN LoginResponse(401, "Invalid credentials")
      ELSE IF ~user.isActive THEN LoginResponse(401, "Account is deactivated")
      ELSE IF ~comparePassword(user, body.password) THEN LoginResponse(401, "Invalid credentials")
      ELSE LoginResponse(200, "Login successful")

LoginInit ==
  /\ images = <<>>
  /\ storage = <<>>
  /\ storageUsed = [u \in Users |-> 0]
  /\ jobs = <<>>
  /\ work = <<>>
  /\ nextJobId = 1
  /\ nextImageId = 1
  /\ now = 0
  /\ faults = 0
  /\ history = <<>>
  /\ lost = <<>>
  /\ \E a \in [StoredNames -> Accounts], b \in [username : Usernames, password : Passwords] :
       probe = [accounts |-> a, body |-> b, done |-> FALSE, response |-> LoginResponse(0, "")]

LoginRequest ==
  /\ ~probe.done
  /\ probe' = [probe EXCEPT !.done = TRUE, !.response = login(probe.body, probe.accounts)]
  /\ UNCHANGED <<images, storage, storageUsed, jobs, work, nextJobId, nextImageId, now, faults, history, lost>>

LoginNext == LoginRequest

SpecLogin == LoginInit /\ [][LoginNext]_vars

(***************************************************************************)
(* server.js (the auth routes): POST /register, in its two awaits: the     *)
(* lookup of an existing user and the save of the new one.  Requests of    *)
(* several clients interleave between the two.  Whether the users          *)
(* collection refuses a second document with the same username is decided  *)
(* by the schema of models/User.js, which is not part of the sources at    *)
(* hand: both possibilities are kept (uniqueIndex).                        *)
(***************************************************************************)
Registrations == 1 .. 2

RegisterResponse(status, message) == [status |-> status, message |-> message]

NoResponse == RegisterResponse(0, "")

existingUser(users, username) == users[toLowerCase(username)] > 0

RegisterInit ==
  /\ images = <<>>
  /\ storage = <<>>
  /\ storageUsed = [u \in Users |-> 0]
  /\ jobs = <<>>
  /\ work = <<>>
  /\ nextJobId = 1
  /\ nextImageId = 1
  /\ now = 0
  /\ faults = 0
  /\ history = <<>>
  /\ lost = <<>>
  /\ \E names \in [Registrations -> Usernames], before \in [StoredNames -> 0 .. 1], unique \in BOOLEAN :
       probe = [users |-> before,
                uniqueIndex |-> unique,
                username |-> names,
                pc |-> [r \in Registrations |-> "received"],
                found |-> [r \in Registrations |-> FALSE],
                response |-> [r \in Registrations |-> NoResponse]]

RegisterFind(r) ==
  /\ probe.pc[r] = "received"
  /\ IF existingUser(probe.users, probe.username[r])
       THEN probe' = [probe EXCEPT !.pc[r] = "answered", !.found[r] = TRUE,
                        !.response[r] = RegisterResponse(400, "User already exists with this username or email")]
       ELSE probe' = [probe EXCEPT !.pc[r] = "saving"]
  /\ UNCHANGED <<images, storage, storageUsed, jobs, work, nextJobId, nextImageId, now, faults, history, lost>>

RegisterSave(r) ==
  /\ probe.pc[r] = "saving"
  /\ LET name == toLowerCase(probe.username[r])
     IN  IF probe.uniqueIndex /\ probe.users[name] > 0
           THEN probe' = [probe EXCEPT !.pc[r] = "answered",
                            !.response[r] = RegisterResponse(500, "next(error)")]
           ELSE probe' = [probe EXCEPT !.pc[r] = "answered",
                            !.users[name] = @ + 1,
                            !.response[r] = RegisterResponse(201, "User registered successfully")]
  /\ UNCHANGED <<images, storage, storageUsed, jobs, work, nextJobId, nextImageId, now, faults, history, lost>>

RegisterNext == \E r \in Registrations : RegisterFind(r) \/ RegisterSave(r)

SpecRegister == RegisterInit /\ [][RegisterNext]_vars

(***************************************************************************)
(* ImageProcessor.applyFilters on its own: a filters object written with   *)
(* its keys in some order, as the request body gives them, parsed into an  *)
(* object and handed to the engine.                                        *)
(***************************************************************************)
FilterKeys == {"grayscale", "sepia", "blur", "sharpen", "brightness", "contrast", "saturation"}

FilterValues(k) ==
  CASE k \in {"grayscale", "sepia", "sharpen"} -> BOOLEAN
    [] k = "blur" -> {1, 5}
    [] k \in {"brightness", "contrast"} -> {1, 3}
    [] OTHER -> {0, 1, 3}

FilterPairs == UNION {{<<k, v>> : v \in FilterValues(k)} : k \in FilterKeys}

FilterEntries ==
  {e \in UNION {[1 .. n -> FilterPairs] : n \in 0 .. MaxKeys} :
     \A i, j \in 1 .. Len(e) : i # j => e[i][1] # e[j][1]}

\* the object a list of "key": value entries is parsed into
FromEntries(e) == [k \in {e[i][1] : i \in 1 .. Len(e)} |-> Get(e, k)]

FiltersInit ==
  /\ images = <<>>
  /\ storage = <<>>
  /\ storageUsed = [u \in Users |-> 0]
  /\ jobs = <<>>
  /\ work = <<>>
  /\ nextJobId = 1
  /\ nextImageId = 1
  /\ now = 0
  /\ faults = 0
  /\ history = <<>>
  /\ lost = <<>>
  /\ \E e \in FilterEntries :
       probe = [entries |-> e, buffer |-> BufferA, done |-> FALSE, valid |-> FALSE,
                calls |-> <<>>, result |-> Ok(BufferA)]

FiltersCall ==
  /\ ~probe.done
  /\ LET filters == FromEntries(probe.entries)
     IN  probe' = [probe EXCEPT !.done = TRUE,
                                !.valid = filtersValid(filters),
                                !.calls = filterCalls(filters),
                                !.result = applyFilters(probe.buffer, filters)]
  /\ UNCHANGED <<images, storage, storageUsed, jobs, work, nextJobId, nextImageId, now, faults, history, lost>>

FiltersNext == FiltersCall

SpecFilters == FiltersInit /\ [][FiltersNext]_vars

(***************************************************************************)
(* ImageProcessor.changeFormat: the options handed to sharp's encoder.     *)
(* a || b takes b when a is absent, 0 or false.                            *)
(***************************************************************************)
OrElse(options, name, default) ==
  IF ~Has(options, name) THEN default
  ELSE IF name \in {"progressive", "lossless"}
       THEN (IF options[name] = TRUE THEN TRUE ELSE default)
       ELSE (IF options[name] # 0 THEN options[name] ELSE default)

encoderOptions(format, options) ==
  CASE format \in {"jpeg", "jpg"} ->
         [quality |-> OrElse(options, "quality", defaultQuality),
          progressive |-> OrElse(options, "progressive", FALSE)]
    [] format = "png" ->
         [compressionLevel |-> OrElse(options, "compressionLevel", 6),
          progressive |-> OrElse(options, "progressive", FALSE)]
    [] format = "webp" ->
         [quality |-> OrElse(options, "quality", defaultQuality),
          lossless |-> OrElse(options, "lossless", FALSE)]
    [] OTHER -> [quality |-> OrElse(options, "quality", defaultQuality)]

FormatOptionsFull ==
  [quality : {1, 80, 100}, progressive : BOOLEAN, compressionLevel : {0, 6, 9}, lossless : BOOLEAN]

FormatOptions == {Restrict(o, ks) : o \in FormatOptionsFull, ks \in SUBSET {"quality", "progressive", "compressionLevel", "lossless"}}

EncoderInit ==
  /\ images = <<>>
  /\ storage = <<>>
  /\ storageUsed = [u \in Users |-> 0]
  /\ jobs = <<>>
  /\ work = <<>>
  /\ nextJobId = 1
  /\ nextImageId = 1
  /\ now = 0
  /\ faults = 0
  /\ history = <<>>
  /\ lost = <<>>
  /\ \E f \in Formats, o \in FormatOptions :
       probe = [format |-> f, formatOptions |-> o, done |-> FALSE, valid |-> FALSE,
                encoder |-> <<>>, result |-> Ok(BufferA)]

\* transform with {format, formatOptions}: the request validation, then the
\* format stage
EncoderCall ==
  /\ ~probe.done
  /\ probe' = [probe EXCEPT !.done = TRUE,
                            !.valid = ~validate(<< <<"format", probe.format>>, <<"formatOptions", probe.formatOptions>> >>).error,
                            !.encoder = encoderOptions(probe.format, probe.formatOptions),
                            !.result = changeFormat(BufferA, probe.format)]
  /\ UNCHANGED <<images, storage, storageUsed, jobs, work, nextJobId, nextImageId, now, faults, history, lost>>

EncoderNext == EncoderCall

SpecEncoder == EncoderInit /\ [][EncoderNext]_vars

(***************************************************************************)
(* routes/images.js: POST / (upload) and DELETE /:id in their awaits, with *)
(* the requests of several clients in flight at once.  Each request keeps  *)
(* what its handler has read so far; a rejected await goes to next(error)  *)
(* and ends the handler.  userB starts with two images, b.gif and c.png.   *)
(***************************************************************************)
BufferC == SourceBuffer("png", 100, 100, 400, 400)

Requests == 1 .. 2

UploadFile(size) == SourceBuffer("png", 10, 10, size, size)

StoreRequests ==
  {[kind |-> "delete", user |-> u, id |-> i, size |-> 0] : u \in Users, i \in {3, 9}}
  \cup {[kind |-> "upload", user |-> "userB", id |-> 0, size |-> s] : s \in {400, 700}}

\* generateFilename: the clock and eight random bytes, taken as different
\* for every request
generateFilename(r) == IF r = 1 THEN "u1.png" ELSE "u2.png"

NoImage == SourceImage("", "", "", UploadFile(1))

Unanswered == Response(0, "")

StoreInit ==
  /\ images = (1 :> SourceImage("userA", "a.jpg", "image/jpeg", BufferA))
              @@ (2 :> SourceImage("userB", "b.gif", "image/gif", BufferB))
              @@ (3 :> SourceImage("userB", "c.png", "image/png", BufferC))
  /\ storage = (SourceKey("userA", "a.jpg") :> BufferA) @@ (SourceKey("userB", "b.gif") :> BufferB)
               @@ (SourceKey("userB", "c.png") :> BufferC)
  /\ storageUsed = [u \in Users |-> IF u = "userA" THEN BufferA.len ELSE BufferB.len + BufferC.len]
  /\ jobs = <<>>
  /\ work = <<>>
  /\ nextJobId = 1
  /\ nextImageId = 4
  /\ now = 0
  /\ faults = 0
  /\ history = <<>>
  /\ lost = <<>>
  /\ \E q \in [Requests -> StoreRequests] :
       probe = [request |-> q,
                pc |-> [r \in Requests |-> "received"],
                image |-> [r \in Requests |-> NoImage],
                failed |-> [r \in Requests |-> FALSE],
                response |-> [r \in Requests |-> Unanswered]]

Answered(r, response) ==
  probe' = [probe EXCEPT !.pc[r] = "answered", !.response[r] = response]

\* next(error): the error handler answers
Rejected(r) ==
  /\ faults < MaxFaults
  /\ faults' = faults + 1
  /\ probe' = [probe EXCEPT !.pc[r] = "answered", !.failed[r] = TRUE,
                            !.response[r] = Response(500, "next(error)")]

At(r, kind, pc) == probe.request[r].kind = kind /\ probe.pc[r] = pc

\* DELETE /:id: the id check and Image.findOne({_id, userId})
DeleteFind(r) ==
  /\ At(r, "delete", "received")
  /\ LET q == probe.request[r]
     IN  IF DeleteImageResponse(q.user, q.id).status # 200
         THEN Answered(r, DeleteImageResponse(q.user, q.id))
         ELSE probe' = [probe EXCEPT !.pc[r] = "deleteFile", !.image[r] = images[q.id]]
  /\ UNCHANGED <<images, storage, storageUsed, jobs, work, nextJobId, nextImageId, now, faults, history, lost>>

\* s3Service.deleteFile(image.s3Key): deleting a key that is not there succeeds
DeleteFile(r) ==
  /\ At(r, "delete", "deleteFile")
  /\ \/ /\ storage' = Drop(storage, probe.image[r].s3Key)
        /\ probe' = [probe EXCEPT !.pc[r] = "usage"]
        /\ UNCHANGED faults
     \/ Rejected(r) /\ UNCHANGED storage
  /\ UNCHANGED <<images, storageUsed, jobs, work, nextJobId, nextImageId, now, history, lost>>

\* User.findById and user.updateStorageUsage(-image.size)
DeleteUsage(r) ==
  /\ At(r, "delete", "usage")
  /\ \/ /\ updateStorageUsage(probe.request[r].user, -probe.image[r].size)
        /\ probe' = [probe EXCEPT !.pc[r] = "record"]
        /\ UNCHANGED faults
     \/ Rejected(r) /\ UNCHANGED storageUsed
  /\ UNCHANGED <<images, storage, jobs, work, nextJobId, nextImageId, now, history, lost>>

\* Image.findByIdAndDelete(id), which answers null for a record that is gone,
\* and the 200
DeleteRecord(r) ==
  /\ At(r, "delete", "record")
  /\ \/ /\ images' = Drop(images, probe.request[r].id)
        /\ Answered(r, Response(200, "Image deleted successfully"))
        /\ UNCHANGED faults
     \/ Rejected(r) /\ UNCHANGED images
  /\ UNCHANGED <<storage, storageUsed, jobs, work, nextJobId, nextImageId, now, history, lost>>

\* POST /: User.findById and user.hasStorageSpace(req.file.size)
UploadCheck(r) ==
  /\ At(r, "upload", "received")
  /\ LET q == probe.request[r]
     IN  IF ~hasStorageSpace(q.user, q.size)
         THEN Answered(r, Response(400, "Storage limit exceeded"))
         ELSE probe' = [probe EXCEPT !.pc[r] = "uploadFile",
                          !.image[r] = SourceImage(q.user, generateFilename(r), "image/png", UploadFile(q.size))]
  /\ UNCHANGED <<images, storage, storageUsed, jobs, work, nextJobId, nextImageId, now, faults, history, lost>>

\* s3Service.uploadFile(req.file.buffer, s3Key, req.file.mimetype)
UploadPut(r) ==
  /\ At(r, "upload", "uploadFile")
  /\ \/ /\ storage' = Put(storage, probe.image[r].s3Key, UploadFile(probe.request[r].size))
        /\ probe' = [probe EXCEPT !.pc[r] = "save"]
        /\ UNCHANGED faults
     \/ Rejected(r) /\ UNCHANGED storage
  /\ UNCHANGED <<images, storageUsed, jobs, work, nextJobId, nextImageId, now, history, lost>>

\* new Image({...}).save()
UploadSave(r) ==
  /\ At(r, "upload", "save")
  /\ \/ /\ images' = Put(images, nextImageId, probe.image[r])
        /\ nextImageId' = nextImageId + 1
        /\ probe' = [probe EXCEPT !.pc[r] = "usage"]
        /\ UNCHANGED faults
     \/ Rejected(r) /\ UNCHANGED <<images, nextImageId>>
  /\ UNCHANGED <<storage, storageUsed, jobs, work, nextJobId, now, history, lost>>

\* user.updateStorageUsage(req.file.size) and the 201
UploadUsage(r) ==
  /\ At(r, "upload", "usage")
  /\ \/ /\ updateStorageUsage(probe.request[r].user, probe.request[r].size)
        /\ Answered(r, Response(201, "Image uploaded successfully"))
        /\ UNCHANGED faults
     \/ Rejected(r) /\ UNCHANGED storageUsed
  /\ UNCHANGED <<images, storage, jobs, work, nextJobId, nextImageId, now, history, lost>>

StoreNext ==
  \E r \in Requests :
    \/ DeleteFind(r)
    \/ DeleteFile(r)
    \/ DeleteUsage(r)
    \/ DeleteRecord(r)
    \/ UploadCheck(r)
    \/ UploadPut(r)
    \/ UploadSave(r)
    \/ UploadUsage(r)

SpecStore == StoreInit /\ [][StoreNext]_vars

(***************************************************************************)
(* Transform jobs whose specification sets the output format, through      *)
(* format, through compress.format, or not at all.                         *)
(***************************************************************************)
FormatBodies ==
  { << <<"format", "webp">> >>,
    << <<"format", "jpg">>, <<"compress", [quality |-> 50, format |-> "png"]>> >>,
    << <<"compress", [quality |-> 50, format |-> "webp"]>> >>,
    << <<"compress", [quality |-> 50]>> >>,
    << <<"rotate", 90>> >> }

FormatsNext ==
  \/ \E user \in Users, id \in RequestIds, body \in FormatBodies : PostTransform(user, id, body)
  \/ \E j \in JobIds : StartJob(j)
  \/ \E j \in JobIds : PromoteDelayed(j)
  \/ \E j \in JobIds : TransformFindImage(j)
  \/ \E j \in JobIds : TransformDownload(j)
  \/ \E j \in JobIds : TransformApply(j)
  \/ \E j \in JobIds : TransformUpload(j)
  \/ \E j \in JobIds : TransformPersist(j)

SpecFormats == Init /\ [][FormatsNext]_vars

(***************************************************************************)
(* Transform jobs next to DELETE /:id: a source image can be deleted        *)
(* before its job is picked up, between two attempts or during one.        *)
(***************************************************************************)
DeletedSourceNext ==
  \/ \E user \in Users, id \in RequestIds : PostTransform(user, id, SpecLifecycle)
  \/ \E user \in Users, id \in RequestIds : DeleteImage(user, id)
  \/ \E j \in JobIds : StartJob(j)
  \/ \E j \in JobIds : PromoteDelayed(j)
  \/ \E j \in JobIds : TransformFindImage(j)
  \/ \E j \in JobIds : TransformDownload(j)
  \/ \E j \in JobIds : TransformApply(j)
  \/ \E j \in JobIds : TransformUpload(j)
  \/ \E j \in JobIds : TransformPersist(j)

SpecDeletedSource == Init /\ [][DeletedSourceNext]_vars

(***************************************************************************)
(* GET /api/jobs on its own: a queue that holds up to two transform jobs   *)
(* of the two users, waiting, active or failed, and one request.           *)
(***************************************************************************)
QueuedJob(id, user, state) ==
  [id |-> id, name |-> "transform",
   data |-> [imageId |-> 1, transformations |-> validate(SpecLifecycle).value, userId |-> user],
   attempts |-> TransformAttempts, state |-> state,
   progress |-> IF state = "waiting" THEN 0 ELSE 10,
   attemptsMade |-> IF state = "failed" THEN TransformAttempts ELSE 0,
   failedReason |-> IF state = "failed" THEN "Image not found" ELSE Undefined,
   finishedOn |-> IF state = "failed" THEN 0 ELSE NotFinished,
   stalledCounter |-> 0]

Queues ==
  UNION {[1 .. n -> {"waiting", "active", "failed"} \X Users] : n \in 0 .. 2}

ListInit ==
  /\ images = (1 :> SourceImage("userA", "a.jpg", "image/jpeg", BufferA))
  /\ storage = (SourceKey("userA", "a.jpg") :> BufferA)
  /\ storageUsed = [u \in Users |-> IF u = "userA" THEN BufferA.len ELSE 0]
  /\ work = <<>>
  /\ nextImageId = 2
  /\ now = 0
  /\ faults = 0
  /\ lost = <<>>
  /\ \E q \in Queues :
       /\ jobs = [j \in DOMAIN q |-> QueuedJob(j, q[j][2], q[j][1])]
       /\ history = [j \in DOMAIN q |-> <<>>]
       /\ nextJobId = Len(q) + 1
  /\ \E user \in Users, state \in {"", "waiting", "active", "failed"}, limit \in 1 .. MaxLimit :
       probe = [user |-> user, state |-> state, limit |-> limit, done |-> FALSE,
                pages |-> [p \in 1 .. MaxPage |-> <<>>]]

\* the pages 1 .. MaxPage of one listing, asked for one after the other with
\* nothing happening in between
ListCall ==
  /\ ~probe.done
  /\ probe' = [probe EXCEPT !.done = TRUE,
                 !.pages = [p \in 1 .. MaxPage |->
                              ListJobs(probe.user, probe.state, p, probe.limit).jobs]]
  /\ UNCHANGED <<images, storage, storageUsed, jobs, work, nextJobId, nextImageId, now, faults, history, lost>>

ListNext == ListCall

SpecList == ListInit /\ [][ListNext]_vars

(***************************************************************************)
(* The two checks of the resize dimensions on their own: a resize object   *)
(* with sizes around maxDimension goes through the request validation and, *)
(* as it is, through ImageProcessor.resize.                                *)
(***************************************************************************)
ResizeSizes == {1, 800, 3999, 4000, 4001, 8000}

ResizeOptions ==
  {[width |-> w, height |-> h] : w \in ResizeSizes, h \in ResizeSizes}
  \cup {[width |-> w] : w \in ResizeSizes}
  \cup {[height |-> h] : h \in ResizeSizes}

ResizeInit ==
  /\ images = <<>>
  /\ storage = <<>>
  /\ storageUsed = [u \in Users |-> 0]
  /\ jobs = <<>>
  /\ work = <<>>
  /\ nextJobId = 1
  /\ nextImageId = 1
  /\ now = 0
  /\ faults = 0
  /\ history = <<>>
  /\ lost = <<>>
  /\ \E o \in ResizeOptions, b \in {BufferA, BufferTall}, given \in BOOLEAN :
       probe = [spec |-> << <<"resize", IF given THEN o ELSE <<>> >> >>, buffer |-> b, done |-> FALSE,
                validation |-> validate(<<>>), result |-> Ok(b)]

ResizeCall ==
  /\ ~probe.done
  /\ probe' = [probe EXCEPT !.done = TRUE,
                            !.validation = validate(probe.spec),
                            !.result = resize(probe.buffer, Get(probe.spec, "resize"))]
  /\ UNCHANGED <<images, storage, storageUsed, jobs, work, nextJobId, nextImageId, now, faults, history, lost>>

ResizeNext == ResizeCall

SpecResize == ResizeInit /\ [][ResizeNext]_vars

(***************************************************************************)
(* Stalled jobs.  new Queue('image processing', redisConfig) passes no     *)
(* settings, so Bull's defaults apply: a worker renews the lock of its job *)
(* while it runs; the queue's periodic check takes an active job whose     *)
(* lock has expired as stalled, puts it back in the wait list when it has  *)
(* stalled at most maxStalledCount times and fails it otherwise.  The      *)
(* 'stalled' handler of utils/queue.js only logs.                          *)
(***************************************************************************)
maxStalledCount == 1

StalledReason == "job stalled more than allowable limit"

\* what history keeps of a call of the processor that lost its lock: that it
\* was made
LockExpired == "lock expired"

LostAttempt(j) ==
  [name |-> jobs[j].name, error |-> LockExpired, stage |-> "lost", ran |-> <<>>,
   uploaded |-> FALSE, saved |-> FALSE, result |-> NoResult]

moveStalledCountingAttempts(job) ==
  [job EXCEPT !.stalledCounter = @ + 1,
              !.attemptsMade = @ + 1,
              !.state = IF job.attemptsMade + 1 < job.attempts THEN "waiting" ELSE "failed",
              !.failedReason = IF job.attemptsMade + 1 < job.attempts THEN @ ELSE StalledReason,
              !.finishedOn = IF job.attemptsMade + 1 < job.attempts THEN @ ELSE now]

\* Bull's moveStalledJobsToWait on one job: attemptsMade is left as it is
moveStalledJobsToWait(job) ==
  [job EXCEPT !.stalledCounter = @ + 1,
              !.state = IF job.stalledCounter + 1 > maxStalledCount THEN "failed" ELSE "waiting",
              !.failedReason = IF job.stalledCounter + 1 > maxStalledCount THEN StalledReason ELSE @,
              !.finishedOn = IF job.stalledCounter + 1 > maxStalledCount THEN now ELSE @]

\* the lock of a running job expires and the check finds it.  alive: the
\* worker has not crashed (its process was paused, or cut off from Redis)
\* and its call of the processor goes on.  A lost call of the optimize
\* processor is taken as crashed.
Stalled(j, alive) ==
  /\ j \in DOMAIN work
  /\ j \notin DOMAIN lost
  /\ alive => jobs[j].name = "transform"
  /\ jobs' = [jobs EXCEPT ![j] = moveStalledJobsToWait(jobs[j])]
  /\ work' = Drop(work, j)
  /\ lost' = IF alive THEN Put(lost, j, work[j]) ELSE lost
  /\ history' = [history EXCEPT ![j] = Append(@, LostAttempt(j))]
  /\ UNCHANGED <<images, storage, storageUsed, nextJobId, nextImageId, now, faults, probe>>

\* job.progress(n) of a lost call: Bull writes the value without looking at
\* the lock
LostContinue(j, progress, locals) ==
  /\ jobs' = [jobs EXCEPT ![j].progress = progress]
  /\ lost' = [lost EXCEPT ![j] = locals]

\* the lost call ends, by return or by throw: Bull refuses its move of the
\* job for the missing lock, and the job stays as it is
LostEnds(j) ==
  /\ lost' = Drop(lost, j)
  /\ UNCHANGED jobs

\* the transform processor (part_006 72-177) in a call that lost its lock,
\* from one await to the next
LostStep(j) ==
  /\ j \in DOMAIN lost
  /\ j \in DOMAIN jobs
  /\ LET w == lost[j]
         job == jobs[j]
     IN  CASE w.pc = "findImage" ->
                /\ IF job.data.imageId \notin DOMAIN images
                   THEN LostEnds(j)
                   ELSE LostContinue(j, 20, [w EXCEPT !.pc = "download"] @@ [image |-> images[job.data.imageId]])
                /\ UNCHANGED <<images, storage, storageUsed, nextImageId>>
           [] w.pc = "download" ->
                /\ IF w.image.s3Key \notin DOMAIN storage
                   THEN LostEnds(j)
                   ELSE LostContinue(j, 40, [w EXCEPT !.pc = "process"] @@ [buffer |-> storage[w.image.s3Key]])
                /\ UNCHANGED <<images, storage, storageUsed, nextImageId>>
           [] w.pc = "process" ->
                /\ LET r == transform(w.buffer, job.data.transformations)
                   IN  IF ~r.ok
                       THEN LostEnds(j)
                       ELSE LostContinue(j, 70, [w EXCEPT !.pc = "upload", !.buffer = r.buf, !.ran = r.ran]
                                                @@ [filename |-> transformedFilename(w.image),
                                                    s3Key |-> transformedS3Key(job.data.userId, w.image),
                                                    mimeType |-> transformedMimeType(w.image, job.data.transformations)])
                /\ UNCHANGED <<images, storage, storageUsed, nextImageId>>
           [] w.pc = "upload" ->
                /\ storage' = Put(storage, w.s3Key, w.buffer)
                /\ LostContinue(j, 80, [w EXCEPT !.pc = "save", !.uploaded = TRUE]
                                       @@ [uploadResult |-> uploadFileResult(w.s3Key)])
                /\ UNCHANGED <<images, storageUsed, nextImageId>>
           [] w.pc = "save" ->
                /\ LET r == imageSave(transformedImageOf(w, job))
                   IN  IF ~r.ok
                       THEN LostEnds(j) /\ UNCHANGED <<images, nextImageId>>
                       ELSE /\ images' = Put(images, nextImageId, r.buf)
                            /\ nextImageId' = nextImageId + 1
                            /\ LostContinue(j, 90, [w EXCEPT !.pc = "usage", !.saved = TRUE]
                                                   @@ [transformedImageId |-> nextImageId])
                /\ UNCHANGED <<storage, storageUsed>>
           [] w.pc = "usage" ->
                /\ updateStorageUsage(job.data.userId, BufferLength(w.buffer))
                /\ LostEnds(j)
                /\ UNCHANGED <<images, storage, nextImageId>>
  /\ UNCHANGED <<work, nextJobId, now, faults, history, probe>>

\* S3 answers every request: the faults of the model have been used up
StallsInit ==
  /\ images = (1 :> SourceImage("userA", "a.jpg", "image/jpeg", BufferA))
              @@ (2 :> SourceImage("userB", "b.gif", "image/gif", BufferB))
  /\ storage = (SourceKey("userA", "a.jpg") :> BufferA) @@ (SourceKey("userB", "b.gif") :> BufferB)
  /\ storageUsed = [u \in Users |-> IF u = "userA" THEN BufferA.len ELSE BufferB.len]
  /\ jobs = <<>>
  /\ work = <<>>
  /\ nextJobId = 1
  /\ nextImageId = 3
  /\ now = 0
  /\ faults = MaxFaults
  /\ history = <<>>
  /\ probe = NoProbe
  /\ lost = <<>>

\* the queue with workers that crash while they run a job
StallsNext ==
  \/ \E user \in Users, id \in RequestIds : PostTransform(user, id, SpecLifecycle)
  \/ \E id \in DOMAIN images : addOptimizeJob(id)
  \/ \E j \in JobIds : StartJob(j)
  \/ \E j \in JobIds : PromoteDelayed(j)
  \/ \E j \in JobIds : TransformFindImage(j)
  \/ \E j \in JobIds : TransformDownload(j)
  \/ \E j \in JobIds : TransformApply(j)
  \/ \E j \in JobIds : TransformUpload(j)
  \/ \E j \in JobIds : TransformPersist(j)
  \/ \E j \in JobIds : OptimizeFindImage(j)
  \/ \E j \in JobIds : OptimizeDownload(j)
  \/ \E j \in JobIds : OptimizeCompress(j)
  \/ \E j \in JobIds : OptimizeUpload(j)
  \/ \E j \in JobIds : OptimizeSave(j)
  \/ \E j \in JobIds : OptimizeUsage(j)
  \/ \E j \in JobIds : Stalled(j, FALSE)

SpecStalls == StallsInit /\ [][StallsNext]_vars

\* transform jobs with workers that lose their locks and run on
LostWorkerNext ==
  \/ \E user \in Users, id \in RequestIds : PostTransform(user, id, SpecLifecycle)
  \/ \E j \in JobIds : StartJob(j)
  \/ \E j \in JobIds : PromoteDelayed(j)
  \/ \E j \in JobIds : TransformFindImage(j)
  \/ \E j \in JobIds : TransformDownload(j)
  \/ \E j \in JobIds : TransformApply(j)
  \/ \E j \in JobIds : TransformUpload(j)
  \/ \E j \in JobIds : TransformPersist(j)
  \/ \E j \in JobIds : Stalled(j, TRUE)
  \/ \E j \in JobIds : LostStep(j)

SpecLostWorker == StallsInit /\ [][LostWorkerNext]_vars

(***************************************************************************)
(* The queue under fair scheduling.  A worker that holds a job goes on     *)
(* from one await of the processor to the next, a free worker takes a      *)
(* waiting job, and Bull's timer promotes a delayed job when its backoff   *)
(* has passed: each of these steps is taken when it stays possible.        *)
(* Submissions, failures of the store and of the operations, and crashes   *)
(* of workers may happen or not; nothing is assumed of them.               *)
(***************************************************************************)
Work(j) ==
  \/ StartJob(j)
  \/ PromoteDelayed(j)
  \/ TransformFindImage(j)
  \/ TransformDownload(j)
  \/ TransformApply(j)
  \/ TransformUpload(j)
  \/ TransformPersist(j)
  \/ OptimizeFindImage(j)
  \/ OptimizeDownload(j)
  \/ OptimizeCompress(j)
  \/ OptimizeUpload(j)
  \/ OptimizeSave(j)
  \/ OptimizeUsage(j)

FairNext ==
  \/ PostTransform("userA", 1, SpecLifecycle)
  \/ addOptimizeJob(1)
  \/ \E j \in JobIds : Work(j)
  \/ \E j \in JobIds : Stalled(j, FALSE)

SpecFair == Init /\ [][FairNext]_vars /\ \A j \in JobIds : WF_vars(Work(j))

(***************************************************************************)
(* Properties.                                                             *)
(***************************************************************************)
ClaimedOrder == <<"rotate", "flip", "mirror", "crop", "resize", "filters", "watermark", "compress", "format">>

Rank(stage) == CHOOSE i \in 1..Len(ClaimedOrder) : ClaimedOrder[i] = stage

Elements(seq) == {seq[i] : i \in 1..Len(seq)}

Before(seq, x, y) == \E a, b \in 1..Len(seq) : a < b /\ seq[a] = x /\ seq[b] = y

\* C1: whatever the order of the keys in the specification, transform enters
\* the requested stages in the order rotate, flip, mirror, crop, resize,
\* filters, watermark, compress, format; a run that succeeds has entered every
\* requested stage and its buffer was produced by them in that order; with
\* rotate and resize both requested, rotate comes before resize.
C1_FixedOrder ==
  probe.done =>
    LET ran == probe.result.ran
    IN  /\ \A a, b \in 1..Len(ran) : a < b => Rank(ran[a]) < Rank(ran[b])
        /\ Elements(ran) \subseteq Elements(Keys(probe.spec))
        /\ probe.result.ok => /\ Elements(ran) = Elements(Keys(probe.spec))
                              /\ probe.result.buf.applied = ran
        /\ {"rotate", "resize"} \subseteq Elements(ran) => Before(ran, "rotate", "resize")

C1_Witness ==
  /\ probe.done
  /\ Keys(probe.spec) = <<"resize", "crop", "rotate">>
  /\ probe.result.ok
  /\ probe.result.ran = <<"rotate", "crop", "resize">>

StageMessage ==
  [rotate |-> "Failed to rotate image: ", flip |-> "Failed to flip image: ", mirror |-> "Failed to mirror image: ",
   crop |-> "Failed to crop image: ", resize |-> "Failed to resize image: ", filters |-> "Failed to apply filters: ",
   watermark |-> "Failed to add watermark: ", compress |-> "Failed to compress image: ",
   format |-> "Failed to convert image format: "]

EngineReasons ==
  {"extract_area: bad extract area", "Width and height are required for cropping",
   "Maximum dimension allowed is 4000px", "Failed to convert image format: Unsupported format: gif",
   "Unsupported format: gif"}

PipelineFailure(a) == a.stage = "process" /\ a.error # ""

\* C2: when a stage of the pipeline fails in an attempt of a transform job,
\* the failing stage is the last one the attempt entered, its error names
\* that stage and the reason, the attempt has uploaded nothing and saved no
\* record, and the step in which it fails leaves the bucket, the image
\* records and the users' storage usage as they were.
C2_StageFailureAborts ==
  [][\A j \in DOMAIN work :
       (jobs[j].name = "transform" /\ work[j].pc = "process" /\ j \notin DOMAIN work')
       => LET a == history'[j][Len(history'[j])]
          IN  /\ PipelineFailure(a)
              /\ a.ran # <<>>
              /\ \E reason \in EngineReasons :
                   a.error = "Failed to transform image: " \o StageMessage[a.ran[Len(a.ran)]] \o reason
              /\ ~a.uploaded /\ ~a.saved
              /\ storage' = storage /\ images' = images /\ storageUsed' = storageUsed]_vars

C2_Witness ==
  \E j \in DOMAIN history : \E i \in 1..Len(history[j]) :
    /\ PipelineFailure(history[j][i])
    /\ history[j][i].ran = <<"rotate", "crop">>
    /\ history[j][i].error = "Failed to transform image: Failed to crop image: extract_area: bad extract area"
    /\ j \in DOMAIN jobs /\ Keys(jobs[j].data.transformations) = <<"format", "crop", "rotate">>

\* what the interface allows for the fields the requests of the model use
FieldOutOfRange(k, v) ==
  CASE k = "resize" -> \/ Has(v, "width") /\ v.width \notin 1..4000
                       \/ Has(v, "height") /\ v.height \notin 1..4000
    [] k = "crop" -> ~Has(v, "width") \/ ~Has(v, "height")
    [] k = "rotate" -> v \notin -360..360
    [] k = "format" -> v \notin {"jpeg", "jpg", "png", "webp", "avif"}
    [] k = "compress" -> Has(v, "quality") /\ v.quality \notin 1..100
    [] OTHER -> FALSE

OutOfRange(spec) == \E i \in 1..Len(spec) : FieldOutOfRange(spec[i][1], spec[i][2])

\* C3: a submission with a field out of range, or with a crop without
\* height, is answered 400 "Validation error" whoever sends it for whichever
\* image, and no transform job in the queue carries such a specification.
C3_InvalidNeverEnqueued ==
  /\ \A body \in RequestBodies : OutOfRange(body) =>
       \A user \in Users, id \in RequestIds :
         PostTransformResponse(user, id, body) = Response(400, "Validation error")
  /\ \A j \in DOMAIN jobs : jobs[j].name = "transform" =>
       /\ ~OutOfRange(jobs[j].data.transformations)
       /\ ~transformationValidation(jobs[j].data.transformations).error

C3_Witness ==
  /\ \A body \in InvalidBodies :
       OutOfRange(body) /\ PostTransformResponse("userA", 1, body).status = 400
  /\ \E j \in DOMAIN jobs :
       /\ jobs[j].name = "transform"
       /\ HasKey(jobs[j].data.transformations, "crop")
       /\ Has(Get(jobs[j].data.transformations, "crop"), "height")

\* C4: a submission that is answered 202 adds exactly one job, in waiting
\* with progress 0 and no attempt made, for an image that exists and belongs
\* to the caller, and changes nothing else: no worker state, no stored
\* object, no image record, no usage, no other job; a valid submission for
\* an image that does not exist or belongs to someone else is answered 404
\* "Image not found" and is no step of the queue.
C4_SubmissionOnlyEnqueues ==
  /\ [](\A user \in Users, id \in RequestIds, body \in RequestBodies :
          (~validate(body).error /\ ObjectIdValid(id)
             /\ ~(id \in DOMAIN images /\ images[id].userId = user))
          => /\ PostTransformResponse(user, id, body) = Response(404, "Image not found")
             /\ ~ENABLED PostTransform(user, id, body))
  /\ [][\A j \in DOMAIN jobs' \ DOMAIN jobs :
          jobs'[j].name = "transform" =>
            /\ DOMAIN jobs' = DOMAIN jobs \cup {j}
            /\ \A other \in DOMAIN jobs : jobs'[other] = jobs[other]
            /\ jobs'[j].state = "waiting" /\ jobs'[j].progress = 0 /\ jobs'[j].attemptsMade = 0
            /\ history'[j] = <<>>
            /\ jobs'[j].data.imageId \in DOMAIN images
            /\ images[jobs'[j].data.imageId].userId = jobs'[j].data.userId
            /\ \E body \in RequestBodies :
                 PostTransformResponse(jobs'[j].data.userId, jobs'[j].data.imageId, body)
                   = [status |-> 202, message |-> "Transformation job queued successfully", jobId |-> j]
            /\ work' = work /\ storage' = storage /\ images' = images /\ storageUsed' = storageUsed]_vars

C4_Witness ==
  \E j \in DOMAIN jobs :
    /\ jobs[j].name = "transform" /\ jobs[j].state = "waiting" /\ jobs[j].attemptsMade = 0
    /\ history[j] = <<>> /\ work = <<>>
    /\ PostTransformResponse("userA", 2, SpecLifecycle).status = 404
    /\ PostTransformResponse("userA", 9, SpecLifecycle).status = 404

\* the state a reader of the queue finds a job in; a job that Bull has
\* finished as completed and taken out of the queue counts as completed
StateOf(q, h, j) ==
  IF j \in DOMAIN q THEN q[j].state
  ELSE IF j \in DOMAIN h /\ h[j] # <<>> /\ h[j][Len(h[j])].error = "" THEN "completed"
  ELSE "none"

Changes(allowed) ==
  \A j \in JobIds :
    LET a == StateOf(jobs, history, j)
        b == StateOf(jobs', history', j)
    IN  a # b => <<a, b>> \in allowed

Cap(name) == IF name = "transform" THEN 3 ELSE 2

\* the attempts of job j that have ended, plus the one that is running
Executions(j) == Len(history[j]) + (IF j \in DOMAIN work THEN 1 ELSE 0)

AllFailed(h) == \A i \in 1..Len(h) : h[i].error # ""

C7_UploadRetryCompletes ==
  \A j \in DOMAIN history :
    (/\ Len(history[j]) >= 2
     /\ history[j][1].name = "transform"
     /\ history[j][1].stage = "upload"
     /\ history[j][2].uploaded)
    => /\ history[j][2].error = ""
       /\ Len(history[j]) = 2
       /\ StateOf(jobs, history, j) = "completed"

\* C8 as stated: GET /api/jobs/:id by a user who is not the job's owner is
\* answered not-found.
C8_NonOwnerNotFound ==
  \A j \in DOMAIN jobs, user \in Users :
    (Has(jobs[j].data, "userId") /\ jobs[j].data.userId # user) => GetJob(user, j).status = 404

ListStates == {"", "waiting", "active", "completed", "failed"}

\* C9: whatever the state filter, the page and the limit, every snapshot
\* GET /api/jobs returns to a user is of a job whose data.userId is that user.
C9_ListOwnerFiltered ==
  \A user \in Users, state \in ListStates, page \in 1..MaxPage, limit \in 1..MaxLimit :
    LET listed == ListJobs(user, state, page, limit).jobs
    IN  \A i \in 1..Len(listed) :
          /\ Has(listed[i].data, "userId")
          /\ listed[i].data.userId = user
          /\ listed[i].id \in DOMAIN jobs
          /\ jobs[listed[i].id].data.userId = user

C9_Witness ==
  \E j \in DOMAIN jobs :
    /\ jobs[j].data = [imageId |-> 1, transformations |-> validate(SpecLifecycle).value, userId |-> "userA"]
    /\ getJobs(<<jobs[j].state>>, 0, 1) = <<j>>
    /\ ListJobs("userB", jobs[j].state, 1, 1).jobs = <<>>
    /\ Len(ListJobs("userA", jobs[j].state, 1, 1).jobs) = 1
    /\ ListJobs("userA", "", 1, 1).jobs[1].id = j

Lifecycle(j) == jobs[j].data.transformations = validate(SpecLifecycle).value

\* C10 as stated: an attempt of the job for {resize 800x600, format webp,
\* filters grayscale} whose download, pipeline and upload went through ends
\* without error, having saved a record; the job does not fail.
C10_LifecycleCompletes ==
  \A j \in DOMAIN jobs :
    (jobs[j].name = "transform" /\ Lifecycle(j)) =>
      /\ \A i \in 1..Len(history[j]) :
           history[j][i].uploaded => (history[j][i].error = "" /\ history[j][i].saved)
      /\ jobs[j].state = "failed" => \E i \in 1..Len(history[j]) : ~history[j][i].uploaded

\* the records transform jobs have created: those that were not uploaded
DerivedRecords == {i \in DOMAIN images : i >= 3}

\* C11: no state holds a derived image record, and no attempt of any job
\* has saved one or ended without error as a transform attempt: the cases
\* of the claim, a completed transform job and an attempt that failed after
\* its record was saved, do not occur.
C11_NoDerivedRecord ==
  /\ DerivedRecords = {}
  /\ \A j \in DOMAIN history : \A i \in 1..Len(history[j]) :
       history[j][i].name = "transform" => (~history[j][i].saved /\ history[j][i].error # "")

AtLeastFifthSmaller(optimized, original) == optimized * 10 <= original * 8

MoreThanFifthSmaller(optimized, original) == optimized * 10 < original * 8

Steps(j) == j \in DOMAIN work /\ (j \notin DOMAIN work' \/ work'[j] # work[j])

EndsCompleted(j) ==
  /\ j \notin DOMAIN work' /\ j \notin DOMAIN jobs'
  /\ history'[j][Len(history'[j])].error = ""

\* what an attempt of an optimize job does, given the test that decides
\* whether the bytes are replaced: up to the comparison nothing changes; when
\* the test fails the job completes there and then; when it holds the
\* attempt goes on to the upload, which puts the optimized bytes under the
\* image's key, then sets the record's size to their length, then lowers
\* the owner's usage by the difference and completes.
OptimizeDecides(Smaller(_, _)) ==
  \A j \in DOMAIN work :
    (jobs[j].name = "optimize" /\ Steps(j)) =>
      /\ work[j].pc \in {"findImage", "download", "process"} =>
           storage' = storage /\ images' = images /\ storageUsed' = storageUsed
      /\ work[j].pc = "process" =>
           LET optimized == compress(work[j].buffer, [quality |-> 85, format |-> work[j].image.format])
           IN  optimized.ok =>
                 IF Smaller(BufferLength(optimized.buf), work[j].image.size)
                 THEN j \in DOMAIN work' /\ work'[j].pc = "upload" /\ work'[j].buffer = optimized.buf
                 ELSE EndsCompleted(j) /\ ~history'[j][Len(history'[j])].uploaded
      /\ (work[j].pc = "upload" /\ j \in DOMAIN work') =>
           storage'[work[j].image.s3Key] = work[j].buffer
      /\ (work[j].pc = "save" /\ j \in DOMAIN work') =>
           images'[jobs[j].data.imageId].size = BufferLength(work[j].buffer)
      /\ work[j].pc = "usage" =>
           LET image == work[j].image
           IN  /\ EndsCompleted(j)
               /\ storageUsed'[image.userId]
                    = storageUsed[image.userId] - (image.size - BufferLength(work[j].buffer))

\* C12 as stated: the bytes are replaced exactly when the optimized size is
\* at most 80% of the recorded size, a reduction of exactly 20% included.
C12_ReplacesFromFifth == [][OptimizeDecides(AtLeastFifthSmaller)]_vars

\* C12, amended: the bytes and the record's size are replaced exactly when
\* the optimized size is less than 80% of the recorded size; at a reduction
\* of exactly 20% or less, storage, record and usage stay as they were and
\* the job completes.
C12_ReplacesBelowFourFifths == [][OptimizeDecides(MoreThanFifthSmaller)]_vars

\* a reduction of exactly 20%: the job has completed and nothing was replaced
C12_Witness ==
  /\ storage[images[1].s3Key].packed * 10 = images[1].size * 8
  /\ storage[images[1].s3Key].len = images[1].size
  /\ storageUsed["userA"] = images[1].size
  /\ \E j \in DOMAIN history :
       /\ j \notin DOMAIN jobs
       /\ history[j] # <<>>
       /\ history[j][Len(history[j])].error = ""
       /\ ~history[j][Len(history[j])].uploaded

\* C13 as stated: the payload a completed optimize attempt returns says
\* that optimization was applied exactly when the attempt replaced the bytes.
C13_PayloadTellsOutcome ==
  \A j \in DOMAIN history : \A i \in 1..Len(history[j]) :
    (history[j][i].name = "optimize" /\ history[j][i].error = "") =>
      (history[j][i].result.optimized <=> (history[j][i].uploaded /\ history[j][i].saved))

C15_CompletedStaysReadable ==
  [][\A j \in DOMAIN work :
       (Steps(j) /\ Len(history'[j]) > Len(history[j]) /\ history'[j][Len(history'[j])].error = "") =>
         \A user \in Users :
           /\ GetJob(user, j)'.status = 200
           /\ GetJob(user, j)'.job.state = "completed"]_vars

\* C16: the progress of every job is in 0..100, and while one attempt runs
\* (the same call of the processor goes from one await to the next) the
\* job's progress never goes down.
C16_ProgressMonotone ==
  [][/\ \A j \in DOMAIN jobs' : jobs'[j].progress \in 0..100
     /\ \A j \in DOMAIN work :
          j \in DOMAIN work' => jobs'[j].progress >= jobs[j].progress]_vars

\* a transform job in its second attempt, past the upload, showing 80
C16_Witness ==
  \E j \in DOMAIN work :
    /\ jobs[j].name = "transform"
    /\ jobs[j].attemptsMade = 1
    /\ work[j].pc = "save"
    /\ jobs[j].progress = 80

\* C17 as stated: a job that waits for an attempt, in the wait list or parked
\* for its backoff delay, shows progress 0.
C17_ProgressResetOnRetry ==
  \A j \in DOMAIN jobs : jobs[j].state \in {"waiting", "delayed"} => jobs[j].progress = 0

\* C18 as stated: no job is run by two calls of the processor at once, and a
\* call that does not hold the job's lock changes neither the job, nor the
\* bucket, nor the Image collection.
C18_OnlyLockHolderActs ==
  [][\A j \in DOMAIN lost :
       /\ j \notin DOMAIN work
       /\ (j \notin DOMAIN lost' \/ lost'[j] # lost[j]) =>
            (jobs' = jobs /\ storage' = storage /\ images' = images)]_vars

Failures(h) == SelectSeq(h, LAMBDA a : a.error # "" /\ a.error # LockExpired)

C20_ResizeBoundary ==
  probe.done =>
    LET o == Get(probe.spec, "resize")
        over == (Has(o, "width") /\ o.width > 4000) \/ (Has(o, "height") /\ o.height > 4000)
    IN  /\ over =>
             /\ probe.validation.error
             /\ ~probe.result.ok
             /\ probe.result.err = "Failed to resize image: Maximum dimension allowed is 4000px"
        /\ ~over =>
             /\ probe.result.ok
             /\ (Has(o, "width") /\ Has(o, "height")) => ~probe.validation.error

\* width and height exactly 4000: accepted by both
C20_Witness ==
  /\ probe.done
  /\ Get(probe.spec, "resize") = [width |-> 4000, height |-> 4000]
  /\ ~probe.validation.error
  /\ probe.result.ok

\* C21 as stated: when the specification has a watermark field, transform
\* enters the watermark stage, and without overlay bytes in the field it
\* fails there.
C21_WatermarkNeverSkipped ==
  (probe.done /\ HasKey(probe.request, "watermark")) =>
    /\ "watermark" \in Elements(probe.result.ran)
    /\ ~Has(Get(probe.request, "watermark"), "image") =>
         (~probe.result.ok /\ probe.result.ran[Len(probe.result.ran)] = "watermark")

C23_QuotaRejectsSubmission ==
  [][\A j \in DOMAIN jobs' \ DOMAIN jobs :
       jobs'[j].name = "transform" => hasStorageSpace(jobs'[j].data.userId, 1)]_vars

\* C24 as stated: the key of every attempt lies under the owner's
\* images/<userId>/transformed/ prefix, is the key of no source image, and
\* is the key of no other attempt.
C24_KeysNeverCollide ==
  \A u \in probe.uploads :
    /\ \E t \in 0..MaxTime, i \in DOMAIN images :
         u.key = "images/" \o u.userId \o "/transformed/transformed_" \o ToString(t) \o "_" \o images[i].filename
    /\ \A i \in DOMAIN images : u.key # images[i].s3Key
    /\ \A v \in probe.uploads : (v.job # u.job \/ v.attempt # u.attempt) => v.key # u.key

\* C25: next() is called only for a header 'Bearer <token>' whose token
\* verifies and names an existing, active user; without a token the answer
\* is 401 'Access denied. No token provided.', with a token that does not
\* verify it is 401 'Invalid token.', and whenever next() is not called the
\* answer is 401.
C25_AuthGuardsHandler ==
  probe.done =>
    LET h == probe.header
        r == probe.response
        bearer == h # NoHeader /\ h.prefix = "Bearer " /\ ~h.rest.empty
    IN  /\ r.entered =>
             /\ bearer /\ h.rest.signed /\ ~h.rest.expired
             /\ probe.accounts[h.rest.id] = "active"
        /\ ~bearer => (r.status = 401 /\ r.message = "Access denied. No token provided." /\ ~r.entered)
        /\ (bearer /\ (~h.rest.signed \/ h.rest.expired)) =>
             (r.status = 401 /\ r.message = "Invalid token." /\ ~r.entered)
        /\ ~r.entered => r.status = 401

\* a well-signed token of an inactive user: refused
C25_Witness ==
  /\ probe.done
  /\ probe.header.prefix = "Bearer " /\ Verifies(probe.header.rest)
  /\ probe.accounts[probe.header.rest.id] = "inactive"
  /\ probe.dbOk
  /\ probe.response = AuthResponse(401, "User not found or inactive.", FALSE)

\* C26 as stated: a login for a username that has no account, and a login
\* with a wrong password for one that has, whatever the state of the
\* account, are both answered 401 'Invalid credentials'.
C26_LoginHidesExistence ==
  probe.done =>
    LET user == probe.accounts[toLowerCase(probe.body.username)]
    IN  (~user.exists \/ user.password # probe.body.password) =>
          probe.response = LoginResponse(401, "Invalid credentials")

\* C27, first half: a registration whose lookup finds a user with the same
\* lower-cased username is answered 400 with an 'already exists' message
\* and stores nothing.
C27_ExistingRejected ==
  [][\A r \in Registrations :
       (RegisterFind(r) /\ existingUser(probe.users, probe.username[r])) =>
         /\ probe'.response[r].status = 400
         /\ probe'.users = probe.users]_vars

\* C27, second half: whatever the interleaving of the registrations, no
\* lower-cased username is stored for more than one user.
C27_OnePerName == \A n \in StoredNames : probe.users[n] <= 1

\* C27, second half, where the collection refuses a second document with
\* the same username.
C27_OnePerNameUnderIndex == probe.uniqueIndex => C27_OnePerName

\* C28 as stated: a resize that gives only a width or only a height, within
\* 1..4000, passes the request validation; a resize that gives neither
\* leaves the image as it is in the engine.
C28_SidesOptional ==
  probe.done =>
    LET o == Get(probe.spec, "resize")
        within == /\ Has(o, "width") => o.width \in 1 .. maxDimension
                  /\ Has(o, "height") => o.height \in 1 .. maxDimension
    IN  /\ (within /\ (Has(o, "width") # Has(o, "height"))) => ~probe.validation.error
        /\ (~Has(o, "width") /\ ~Has(o, "height")) =>
             /\ probe.result.ok
             /\ getMetadata(probe.result.buf) = getMetadata(probe.buffer)

FilterOrder == <<"grayscale", "sepia", "blur", "sharpen", "brightness", "contrast", "saturation">>

FilterRank(name) == CHOOSE i \in 1 .. Len(FilterOrder) : FilterOrder[i] = name

\* a filter is requested when its key is given, a switch with true and an
\* amount with any number the request validation accepts
Requested(e, name) ==
  /\ HasKey(e, name)
  /\ name \in {"grayscale", "sepia", "sharpen"} => Get(e, name) = TRUE

\* C30 as stated: applyFilters applies the requested filters in the order
\* grayscale, sepia, blur, sharpen, brightness, contrast, saturation, whatever
\* the order of the keys in the filters object, and each of them exactly once.
C30_FixedOrderOnce ==
  (probe.done /\ probe.valid) =>
    /\ \A i, j \in 1 .. Len(probe.calls) :
         i < j => FilterRank(probe.calls[i]) < FilterRank(probe.calls[j])
    /\ \A name \in FilterKeys :
         Cardinality({i \in 1 .. Len(probe.calls) : probe.calls[i] = name})
           = IF Requested(probe.entries, name) THEN 1 ELSE 0

Terminal(j) == StateOf(jobs, history, j) \in {"completed", "failed"}

\* C29: under fair scheduling of the workers every job that is waiting or
\* active eventually is completed or terminally failed, whatever failures
\* of the store and of the operations and whatever stalls occur.
C29_EveryJobEnds ==
  \A j \in JobIds :
    (StateOf(jobs, history, j) \in {"waiting", "active"}) ~> Terminal(j)

\* a job that has failed, was retried, has stalled and has reached its end
C29_Witness ==
  \E j \in DOMAIN jobs :
    /\ jobs[j].state = "failed"
    /\ jobs[j].stalledCounter = 1
    /\ jobs[j].attemptsMade = jobs[j].attempts

\* C31 as stated: an option value the request validation accepts is used by
\* the engine as given: every format option that the encoder of the chosen
\* format takes reaches it with the value of the request, compressionLevel 0
\* for png included.
C31_OptionsUsedAsGiven ==
  (probe.done /\ probe.valid /\ probe.result.ok) =>
    \A name \in DOMAIN probe.formatOptions \cap DOMAIN probe.encoder :
      probe.encoder[name] = probe.formatOptions[name]

RECURSIVE SumOfSizes(_)
SumOfSizes(ids) ==
  IF ids = {} THEN 0
  ELSE LET i == CHOOSE x \in ids : TRUE
       IN  images[i].size + SumOfSizes(ids \ {i})

RecordsOf(user) == {i \in DOMAIN images : images[i].userId = user}

AllAnswered == \A r \in Requests : probe.pc[r] = "answered"

NothingFailed == \A r \in Requests : ~probe.failed[r]

\* C32 as stated: once the requests have been answered and no step of any of
\* them has failed, the recorded storage usage of every user is the sum of
\* the sizes of that user's image records.
C32_UsageIsSumOfSizes ==
  (AllAnswered /\ NothingFailed) =>
    \A u \in Users : storageUsed[u] = SumOfSizes(RecordsOf(u))

SameDeleteTwice ==
  \A r \in Requests : probe.request[r] = [kind |-> "delete", user |-> "userB", id |-> 3, size |-> 0]

\* C36 as stated: when two DELETE requests of the owner for the same image
\* run at the same time, the owner's storage usage goes down by the size of
\* the image once, and at most one of the two requests is answered 200.
C36_DeleteOnce ==
  (SameDeleteTwice /\ AllAnswered /\ NothingFailed) =>
    /\ storageUsed["userB"] = BufferB.len
    /\ Cardinality({r \in Requests : probe.response[r].status = 200}) <= 1

\* C33 as stated: the recorded storage usage of a user never exceeds the
\* user's storage limit, whatever uploads have been made.
C33_UsageWithinLimit == \A u \in Users : storageUsed[u] <= storageLimit

TransformStep(j) ==
  \/ TransformFindImage(j)
  \/ TransformDownload(j)
  \/ TransformApply(j)
  \/ TransformUpload(j)
  \/ TransformPersist(j)

\* C34: no step of the transform processor, in an attempt that succeeds or
\* in one that fails, changes an image record that exists or the bytes stored
\* under the key of one.
C34_SourceUntouched ==
  [][(\E j \in JobIds : TransformStep(j)) =>
       \A id \in DOMAIN images :
         /\ id \in DOMAIN images' /\ images'[id] = images[id]
         /\ images[id].s3Key \in DOMAIN storage =>
              /\ images[id].s3Key \in DOMAIN storage'
              /\ storage'[images[id].s3Key] = storage[images[id].s3Key]]_vars

\* a transform job that has uploaded derived bytes in every one of its
\* attempts and has failed, with its source as it was
C34_Witness ==
  /\ \E j \in DOMAIN jobs :
       /\ jobs[j].name = "transform" /\ jobs[j].state = "failed"
       /\ jobs[j].data.imageId = 1
       /\ \A i \in 1 .. Len(history[j]) : history[j][i].uploaded
  /\ images[1] = SourceImage("userA", "a.jpg", "image/jpeg", BufferA)
  /\ storage[SourceKey("userA", "a.jpg")] = BufferA
  /\ Cardinality(DOMAIN storage) > 2

\* the MIME type of an encoded format
MimeOf(format) == "image/" \o format

\* C35 as stated: the content type a transform job uploads its bytes with,
\* which is the mimeType of the record it builds, is the MIME type of the
\* format the bytes are encoded in.
C35_MimeMatchesBytes ==
  \A j \in DOMAIN work :
    (jobs[j].name = "transform" /\ work[j].uploaded) =>
      /\ work[j].mimeType = MimeOf(storage[work[j].s3Key].format)
      /\ work[j].pc = "save" => transformedImage(j).mimeType = MimeOf(work[j].buffer.format)

\* C37 as stated: in every reachable state, also after a step of a handler
\* has failed, every image record has an object stored under its s3Key.
C37_RecordsHaveObjects == \A id \in DOMAIN images : images[id].s3Key \in DOMAIN storage

\* C38: an attempt of a transform job that looks up a source record which
\* has been deleted ends there with 'Image not found': it stores nothing,
\* creates no record and leaves every usage as it is; the job is parked for
\* its next attempt, and with the third such attempt it is failed with
\* 'Image not found' as its reason.
C38_DeletedSourceFails ==
  [][\A j \in JobIds :
       (TransformStep(j) /\ work[j].pc = "findImage" /\ jobs[j].data.imageId \notin DOMAIN images) =>
         /\ storage' = storage /\ images' = images /\ storageUsed' = storageUsed
         /\ j \in DOMAIN jobs' /\ j \notin DOMAIN work'
         /\ jobs'[j].failedReason = "Image not found"
         /\ history'[j][Len(history'[j])].error = "Image not found"
         /\ ~history'[j][Len(history'[j])].uploaded
         /\ jobs'[j].state = IF jobs[j].attemptsMade + 1 < TransformAttempts THEN "delayed" ELSE "failed"]_vars

\* a job for an image deleted before its first attempt, failed after three
C38_Witness ==
  \E j \in DOMAIN jobs :
    /\ jobs[j].name = "transform" /\ jobs[j].state = "failed"
    /\ jobs[j].data.imageId \notin DOMAIN images
    /\ jobs[j].failedReason = "Image not found"
    /\ Len(history[j]) = TransformAttempts
    /\ \A i \in 1 .. Len(history[j]) : history[j][i].error = "Image not found"
    /\ storageUsed = [u \in Users |-> IF u = jobs[j].data.userId THEN 0 ELSE storageUsed[u]]
    /\ Cardinality(DOMAIN storage) = 1

RequestedStates(state) == IF state # "" THEN <<state>> ELSE <<"waiting", "active", "completed", "failed">>

\* the caller's jobs in the requested states, in the order of the queue
CallerJobs(user, state) ==
  SelectSeq(getJobs(RequestedStates(state), 0, MaxJobs + 2), LAMBDA id : OwnedBy(user, id))

PageOf(seq, p, n) ==
  [i \in 1 .. (IF Len(seq) >= p * n THEN n ELSE IF Len(seq) > (p - 1) * n THEN Len(seq) - (p - 1) * n ELSE 0) |->
     seq[(p - 1) * n + i]]

\* C39 as stated: page p of a listing with limit n holds the caller's jobs
\* ranked (p-1)*n+1 .. p*n among the caller's jobs in the requested states,
\* whatever jobs other users have in the queue.
C39_PagesOfOwnJobs ==
  probe.done =>
    \A p \in 1 .. MaxPage :
      [i \in 1 .. Len(probe.pages[p]) |-> probe.pages[p][i].id]
        = PageOf(CallerJobs(probe.user, probe.state), p, probe.limit)

====
